---- MODULE Spec2Model ----
(***************************************************************************)
(* The hardware command bridge of Asta: the Flask server that clamps HTTP  *)
(* payloads, formats them as serial command lines and writes them to the   *)
(* hand and face Arduinos.  Two variants of the server exist in the        *)
(* repository: src/rasbery_h.py ("pi") and src/Volt/rasbery_h.py ("volt"). *)
(*                                                                         *)
(* Text is modelled as a sequence of one-character strings, so that        *)
(* formatting, stripping and parsing are computed and not assumed.         *)
(***************************************************************************)
EXTENDS Integers, Sequences, FiniteSets, TLC

VARIABLES
    variant,       \* "pi" (src/rasbery_h.py) or "volt" (src/Volt/rasbery_h.py)
    hand_arduino,  \* the global hand_arduino: "None", "open" or "closed"
    face_arduino,  \* the global face_arduino: "None", "open" or "closed"
    device,        \* [hand, face] -> "ok", "absent" or "stuck": what each port does
    pc,            \* "boot" before __main__ ran, "idle", "done" (a response is ready)
    req,           \* the request being answered
    resp,          \* its response
    log,           \* the operations made on the two serial links for this request
    pre,           \* the link state when the request arrived
    last,          \* the previous request of the same client and what it left
    camera,        \* the global camera: NoCamera or a VideoCapture handle
    camera_running,\* the global camera_running
    latest_frame,  \* the global latest_frame: 0 for None, else the handle that read it
    camera_lock,   \* "free" or the thread inside `with camera_lock`
    sessions,      \* how many handles that deliver frames were created so far
    started,       \* whether a POST /camera/start has launched a capture thread
    last_read,     \* the frame of the latest successful read of a capture thread
    read_failed,   \* whether the latest read of a capture thread failed
    stream,        \* the generators of GET /camera/stream
    th,            \* the threads answering camera requests
    cap,           \* the threads running camera_thread_func
    serial_lock,   \* "free" or the thread inside `with serial_lock`
    st,            \* the threads inside init_*_arduino and send_to_*_arduino
    begun,         \* the sends and connects begun so far, in the order they began
    gen,           \* per link, how many times serial.Serial(...) returned a handle
    outbuf,        \* per link, the lines written to the port and not yet flushed
    wire,          \* per link, the lines that have left the port, in order
    order,         \* per link, the sends in the order they entered `with serial_lock`
    okd,           \* the sends that returned (True, ...)
    dropped,       \* per link, the handles the global let go of while they were open
    is_running,    \* HandAnimator.is_running
    timers,        \* the QTimer.singleShot callbacks of HandAnimator not yet fired
    sent,          \* the hand commands HandAnimator has sent, in order
    runs,          \* the gestures execute_gesture_sequence has started, in order
    calls,         \* how many times execute_gesture_sequence was called
    note           \* the latest message HandAnimator gave to log_callback

linkvars == <<variant, hand_arduino, face_arduino, device, pc, req, resp, log, pre, last>>

camvars == <<camera, camera_running, latest_frame, camera_lock, sessions, started,
            th, cap, last_read, read_failed, stream>>

servars == <<serial_lock, st, begun, gen, outbuf, wire, order, okd, dropped>>

animvars == <<is_running, timers, sent, runs, calls, note>>

vars == <<linkvars, camvars, servars, animvars>>

----------------------------------------------------------------------------
(* Program constants *)

EYE_MIN == 70
EYE_MAX == 110
EYE_CENTER == 90
MOUTH_MIN == 0
MOUTH_MAX == 80
EYE_PAN_MIN == 70
EYE_PAN_MAX == 110
EYE_TILT_MIN == 60
EYE_TILT_MAX == 100

----------------------------------------------------------------------------
(* Text *)

DigitChars == <<"0", "1", "2", "3", "4", "5", "6", "7", "8", "9">>

Digit(d) == DigitChars[d + 1]

IsDigit(c) == \E d \in 0..9 : DigitChars[d + 1] = c

DigitVal(c) == CHOOSE d \in 0..9 : DigitChars[d + 1] = c

RECURSIVE NatToStr(_)
NatToStr(n) ==
    IF n < 10 THEN <<Digit(n)>>
    ELSE NatToStr(n \div 10) \o <<Digit(n % 10)>>

\* the text an f-string gives for an int: f"{n}"
IntToStr(n) == IF n < 0 THEN <<"-">> \o NatToStr(0 - n) ELSE NatToStr(n)

RECURSIVE DigitsToNat(_)
DigitsToNat(cs) ==
    IF cs = <<>> THEN 0
    ELSE 10 * DigitsToNat(SubSeq(cs, 1, Len(cs) - 1)) + DigitVal(cs[Len(cs)])

AllDigits(cs) == cs # <<>> /\ \A i \in DOMAIN cs : IsDigit(cs[i])

IsSpace(c) == c \in {" ", "\n", "\t", "\r"}

RECURSIVE LStrip(_)
LStrip(cs) ==
    IF cs # <<>> /\ IsSpace(cs[1]) THEN LStrip(Tail(cs)) ELSE cs

RECURSIVE RStrip(_)
RStrip(cs) ==
    IF cs # <<>> /\ IsSpace(cs[Len(cs)])
    THEN RStrip(SubSeq(cs, 1, Len(cs) - 1)) ELSE cs

\* a strip that forgets the right end
StripLeft(cs) == LStrip(cs)

\* str.strip()
Strip(cs) == RStrip(LStrip(cs))

\* str.endswith('\n')
EndsWithNewline(cs) == cs # <<>> /\ cs[Len(cs)] = "\n"

UpperChars == <<"A", "B", "C", "D", "E", "F", "G", "H", "I", "J", "K", "L", "M",
                "N", "O", "P", "Q", "R", "S", "T", "U", "V", "W", "X", "Y", "Z">>

LowerChars == <<"a", "b", "c", "d", "e", "f", "g", "h", "i", "j", "k", "l", "m",
                "n", "o", "p", "q", "r", "s", "t", "u", "v", "w", "x", "y", "z">>

LowerChar(c) ==
    IF \E i \in DOMAIN UpperChars : UpperChars[i] = c
    THEN LowerChars[CHOOSE i \in DOMAIN UpperChars : UpperChars[i] = c]
    ELSE c

\* str.lower()
Lower(cs) == [i \in DOMAIN cs |-> LowerChar(cs[i])]

\* int(text): [ok, n]; ok is FALSE where Python raises ValueError
ParseInt(cs) ==
    LET t == Strip(cs)
        signed == t # <<>> /\ t[1] \in {"-", "+"}
        digits == IF signed THEN Tail(t) ELSE t
    IN  IF AllDigits(digits)
        THEN [ok |-> TRUE,
              n |-> IF signed /\ t[1] = "-" THEN 0 - DigitsToNat(digits)
                    ELSE DigitsToNat(digits)]
        ELSE [ok |-> FALSE, n |-> 0]

\* the fields of a line split at a separator character
RECURSIVE SplitAt(_, _)
SplitAt(cs, sep) ==
    IF \E i \in DOMAIN cs : cs[i] = sep
    THEN LET i == CHOOSE j \in DOMAIN cs :
                      cs[j] = sep /\ \A k \in 1..(j - 1) : cs[k] # sep
         IN  <<SubSeq(cs, 1, i - 1)>> \o SplitAt(SubSeq(cs, i + 1, Len(cs)), sep)
    ELSE <<cs>>

----------------------------------------------------------------------------
(* JSON values and request bodies.  A body is absent (has = FALSE) or an   *)
(* object: its members in the order the client wrote them.                 *)

IntV(i) == [t |-> "int", n |-> i, s |-> <<>>]

StrV(cs) == [t |-> "str", n |-> 0, s |-> cs]

NoBody == [has |-> FALSE, items |-> <<>>]

Obj(items) == [has |-> TRUE, items |-> items]

\* `not data`: None and {} are both falsy
Falsy(data) == ~data.has \/ data.items = <<>>

\* key in data
HasKey(data, key) == \E i \in DOMAIN data.items : data.items[i].k = key

\* data[key]
Lookup(data, key) ==
    data.items[CHOOSE i \in DOMAIN data.items : data.items[i].k = key].v

\* data.get(key, default)
Get(data, key, default) ==
    IF HasKey(data, key) THEN Lookup(data, key) ELSE default

\* int(value): [ok, n]; ok is FALSE where Python raises
PyInt(v) == IF v.t = "int" THEN [ok |-> TRUE, n |-> v.n] ELSE ParseInt(v.s)

Min(a, b) == IF a < b THEN a ELSE b

Max(a, b) == IF a > b THEN a ELSE b

\* a clamp that forgets the upper bound
ClampLow(lo, hi, x) == Max(lo, x)

\* max(lo, min(hi, x))
Clamp(lo, hi, x) == Max(lo, Min(hi, x))

----------------------------------------------------------------------------
(* The two serial links.  A world w = [hand, face, log] is threaded        *)
(* through the code of one handler; port[link] is what the device does:    *)
(* "ok", "absent" (serial.Serial raises) or "stuck" (the port opens, a     *)
(* write raises).                                                          *)

Links == {"hand", "face"}

PortStates == {"ok", "absent", "stuck"}

Ev(link, op, by, ok, line) ==
    [link |-> link, op |-> op, by |-> by, ok |-> ok, line |-> line]

Handle(w, link) == IF link = "hand" THEN w.hand ELSE w.face

SetHandle(w, link, h) ==
    IF link = "hand" THEN [w EXCEPT !.hand = h] ELSE [w EXCEPT !.face = h]

Logged(w, e) == [w EXCEPT !.log = Append(@, e)]

\* `x is None or not x.is_open`
NotOpen(h) == h = "None" \/ h # "open"

HAND_TEST == <<"0", ",", "0", ",", "0", ",", "0", ",", "1", "8", "0", ",",
               "1", "8", "0", ",", "0", "\n">>

FACE_TEST == <<"E", "9", "0", " ", "M", "0", "\n">>

TestCommand(link) == IF link = "hand" THEN HAND_TEST ELSE FACE_TEST

\* the write section of a connect: test command, flush
TestWrite(link, port, w) ==
    IF port[link] = "ok"
    THEN [w |-> Logged(w, Ev(link, "write", "init", TRUE, TestCommand(link))),
          raised |-> FALSE]
    ELSE [w |-> Logged(w, Ev(link, "write", "init", FALSE, TestCommand(link))),
          raised |-> TRUE]

\* init_hand_arduino / init_face_arduino: [w, ret]
InitArduino(v, link, port, w) ==
    LET w0 == Logged(w, Ev(link, "connect", "init", TRUE, <<>>))
        w1 == IF Handle(w0, link) = "open"
              THEN Logged(SetHandle(w0, link, "closed"),
                          Ev(link, "close", "init", TRUE, <<>>))
              ELSE w0
        opened == port[link] # "absent"
        w2 == Logged(w1, Ev(link, "open", "init", opened, <<>>))
    IN  IF ~opened
        THEN \* serial.Serial raised: the except branch
             [w |-> Logged(SetHandle(w2, link, "None"),
                           Ev(link, "connect_ret", "init", FALSE, <<>>)),
              ret |-> FALSE]
        ELSE LET w3 == Logged(SetHandle(w2, link, "open"),
                              Ev(link, "reset", "init", TRUE, <<>>))
                 t  == TestWrite(link, port, w3)
             IN  IF t.raised
                 THEN [w |-> Logged(SetHandle(t.w, link, "None"),
                                    Ev(link, "connect_ret", "init", FALSE, <<>>)),
                       ret |-> FALSE]
                 ELSE LET w4 == IF v = "volt"
                                THEN Logged(t.w, Ev(link, "drain", "init", TRUE, <<>>))
                                ELSE t.w
                      IN  [w |-> Logged(w4, Ev(link, "connect_ret", "init", TRUE, <<>>)),
                           ret |-> TRUE]

init_hand_arduino(v, port, w) == InitArduino(v, "hand", port, w)

init_face_arduino(v, port, w) == InitArduino(v, "face", port, w)

\* a send that closes its port once the line is written
SendWriteAndClose(v, link, port, data_str, w) ==
    LET line == IF EndsWithNewline(data_str) THEN data_str
                ELSE data_str \o <<"\n">>
    IN  IF port[link] = "ok"
        THEN [w |-> SetHandle(Logged(w, Ev(link, "write", "send", TRUE, line)),
                              link, "closed"),
              ret |-> TRUE, msg |-> "sent"]
        ELSE [w |-> Logged(w, Ev(link, "write", "send", FALSE, line)),
              ret |-> FALSE, msg |-> "send_error"]

\* the try block of a send: terminator, write, flush, drain: [w, ret, msg]
SendWrite(v, link, port, data_str, w) ==
    LET line == IF EndsWithNewline(data_str) THEN data_str
                ELSE data_str \o <<"\n">>
    IN  IF port[link] = "ok"
        THEN LET w1 == Logged(w, Ev(link, "write", "send", TRUE, line))
                 w2 == IF v = "volt"
                       THEN Logged(w1, Ev(link, "drain", "send", TRUE, <<>>))
                       ELSE w1
             IN  [w |-> w2, ret |-> TRUE, msg |-> "sent"]
        ELSE LET w1 == Logged(w, Ev(link, "write", "send", FALSE, line))
             IN  [w |-> IF v = "volt" THEN SetHandle(w1, link, "None") ELSE w1,
                  ret |-> FALSE, msg |-> "send_error"]

\* send_to_hand_arduino / send_to_face_arduino: [w, ret, msg]
SendTo(v, link, port, data_str, w) ==
    IF NotOpen(Handle(w, link))
    THEN IF v = "volt"
         THEN LET r == InitArduino(v, link, port, w)
              IN  IF ~r.ret
                  THEN [w |-> r.w, ret |-> FALSE, msg |-> "not_connected"]
                  ELSE SendWrite(v, link, port, data_str, r.w)
         ELSE [w |-> w, ret |-> FALSE, msg |-> "not_connected"]
    ELSE SendWrite(v, link, port, data_str, w)

send_to_hand_arduino(v, port, data_str, w) == SendTo(v, "hand", port, data_str, w)

send_to_face_arduino(v, port, data_str, w) == SendTo(v, "face", port, data_str, w)

\* a send whose data_str is not text: endswith raises inside the try block
SendNonText(v, link, port, w) ==
    IF NotOpen(Handle(w, link))
    THEN IF v = "volt"
         THEN LET r == InitArduino(v, link, port, w)
              IN  IF ~r.ret
                  THEN [w |-> r.w, ret |-> FALSE, msg |-> "not_connected"]
                  ELSE [w |-> SetHandle(r.w, link, "None"),
                        ret |-> FALSE, msg |-> "send_error"]
         ELSE [w |-> w, ret |-> FALSE, msg |-> "not_connected"]
    ELSE [w |-> IF v = "volt" THEN SetHandle(w, link, "None") ELSE w,
          ret |-> FALSE, msg |-> "send_error"]

----------------------------------------------------------------------------
(* Responses *)

NoResp ==
    [code |-> 0, status |-> "", message |-> "", angles |-> <<>>,
     expression |-> <<>>, hand_connected |-> FALSE, face_connected |-> FALSE,
     camera_running |-> FALSE, headers |-> {}, body |-> ""]

\* the three headers of add_cors_headers
CORS ==
    {<<"Access-Control-Allow-Origin", "*">>,
     <<"Access-Control-Allow-Methods", "GET, POST, OPTIONS, PUT, DELETE">>,
     <<"Access-Control-Allow-Headers", "Content-Type, Authorization">>}

add_cors_headers(response) == [response EXCEPT !.headers = @ \cup CORS]

\* after_request: every response that leaves, Flask's own error responses
\* too, passes through add_cors_headers
after_request(response) == add_cors_headers(response)

\* a handler's `add_cors_headers(jsonify({...})), code`
Reply(code, status, message) ==
    add_cors_headers([NoResp EXCEPT !.code = code, !.status = status,
                                    !.message = message, !.body = "json"])

\* the response Flask makes of an exception that no handler catches
InternalServerError ==
    [NoResp EXCEPT !.code = 500, !.status = "error", !.message = "exception",
                   !.body = "html"]

\* before_request for the OPTIONS method.  The volt variant answers
\* app.make_response('') with the headers; the pi variant calls
\* make_response, a name the module does not import: the NameError is
\* answered by Flask
before_request(v) ==
    IF v = "volt"
    THEN add_cors_headers([NoResp EXCEPT !.code = 200])
    ELSE InternalServerError

StatusOf(success) == IF success THEN "success" ELSE "error"

\* the connection check the pi variant makes at the top of a handler:
\* [w, failed]
CheckConnection(v, link, port, w) ==
    IF v = "pi" /\ NotOpen(Handle(w, link))
    THEN LET r == InitArduino(v, link, port, w)
         IN  [w |-> r.w, failed |-> ~r.ret]
    ELSE [w |-> w, failed |-> FALSE]

----------------------------------------------------------------------------
(* POST /hand *)

HandKeys == <<"wrist", "f1", "f2", "f3", "f4", "f5", "f6">>

\* the default of data.get(key, default)
HandDefault(v, key) ==
    IF v = "volt" /\ key \in {"f4", "f5"} THEN 180 ELSE 0

\* the finger range given to the wrist too
HandHighAll(key) == 180

HandHigh(key) == IF key = "wrist" THEN 90 ELSE 180

RECURSIVE JoinComma(_)
JoinComma(ns) ==
    IF Len(ns) = 0 THEN <<>>
    ELSE IF Len(ns) = 1 THEN IntToStr(ns[1])
    ELSE IntToStr(ns[1]) \o <<",">> \o JoinComma(Tail(ns))

\* f"{wrist},{f1},{f2},{f3},{f4},{f5},{f6}"
HandCommand(angles) == JoinComma(angles)

\* the angles taken in the order of the body's members, not by name
HandAnglesByPosition(v, data) ==
    LET raw == [i \in 1..7 |->
                   IF i <= Len(data.items) THEN PyInt(data.items[i].v)
                   ELSE [ok |-> TRUE, n |-> HandDefault(v, HandKeys[i])]]
    IN  IF \E i \in 1..7 : ~raw[i].ok
        THEN [ok |-> FALSE, angles |-> <<>>]
        ELSE [ok |-> TRUE,
              angles |-> [i \in 1..7 |-> Clamp(0, HandHigh(HandKeys[i]), raw[i].n)]]

\* the angles of a body, extracted by name: [ok, angles]
HandAngles(v, data) ==
    LET raw == [i \in 1..7 |->
                   PyInt(Get(data, HandKeys[i], IntV(HandDefault(v, HandKeys[i]))))]
    IN  IF \E i \in 1..7 : ~raw[i].ok
        THEN [ok |-> FALSE, angles |-> <<>>]
        ELSE [ok |-> TRUE,
              angles |-> [i \in 1..7 |-> Clamp(0, HandHigh(HandKeys[i]), raw[i].n)]]

set_hand(v, port, data, w) ==
    LET c == CheckConnection(v, "hand", port, w)
    IN  IF c.failed
        THEN [w |-> c.w, resp |-> Reply(503, "error", "not_connected")]
        ELSE IF Falsy(data)
        THEN [w |-> c.w, resp |-> Reply(400, "error", "no_data")]
        ELSE LET a == HandAngles(v, data)
             IN  IF ~a.ok
                 THEN [w |-> c.w, resp |-> Reply(400, "error", "exception")]
                 ELSE LET r == send_to_hand_arduino(v, port, HandCommand(a.angles), c.w)
                      IN  [w |-> r.w,
                           resp |-> [Reply(200, StatusOf(r.ret), r.msg)
                                         EXCEPT !.angles = a.angles]]

----------------------------------------------------------------------------
(* POST /face and POST /face_expression *)

\* the eyes clamped to the range of the mouth
FaceCommandOneRange(data) ==
    LET e == IF HasKey(data, "eyes") THEN PyInt(Lookup(data, "eyes"))
             ELSE [ok |-> TRUE, n |-> 0]
        m == IF HasKey(data, "mouth") THEN PyInt(Lookup(data, "mouth"))
             ELSE [ok |-> TRUE, n |-> 0]
        etok == IF HasKey(data, "eyes")
                THEN <<"E">> \o IntToStr(Clamp(MOUTH_MIN, MOUTH_MAX, e.n)) \o <<" ">>
                ELSE <<>>
        mtok == IF HasKey(data, "mouth")
                THEN <<"M">> \o IntToStr(Clamp(MOUTH_MIN, MOUTH_MAX, m.n))
                ELSE <<>>
    IN  IF ~e.ok \/ ~m.ok THEN [ok |-> FALSE, command |-> <<>>]
        ELSE [ok |-> TRUE, command |-> etok \o mtok]

\* the command of a face body: [ok, command]
FaceCommand(data) ==
    LET e == IF HasKey(data, "eyes") THEN PyInt(Lookup(data, "eyes"))
             ELSE [ok |-> TRUE, n |-> 0]
        m == IF HasKey(data, "mouth") THEN PyInt(Lookup(data, "mouth"))
             ELSE [ok |-> TRUE, n |-> 0]
        etok == IF HasKey(data, "eyes")
                THEN <<"E">> \o IntToStr(Clamp(EYE_MIN, EYE_MAX, e.n)) \o <<" ">>
                ELSE <<>>
        mtok == IF HasKey(data, "mouth")
                THEN <<"M">> \o IntToStr(Clamp(MOUTH_MIN, MOUTH_MAX, m.n))
                ELSE <<>>
    IN  IF ~e.ok \/ ~m.ok THEN [ok |-> FALSE, command |-> <<>>]
        ELSE [ok |-> TRUE, command |-> etok \o mtok]

set_face(v, port, data, w) ==
    LET c == CheckConnection(v, "face", port, w)
    IN  IF c.failed
        THEN [w |-> c.w, resp |-> Reply(503, "error", "not_connected")]
        ELSE IF Falsy(data)
        THEN [w |-> c.w, resp |-> Reply(400, "error", "no_data")]
        ELSE LET f == FaceCommand(data)
             IN  IF ~f.ok
                 THEN [w |-> c.w, resp |-> Reply(400, "error", "exception")]
                 ELSE IF f.command = <<>>
                 THEN [w |-> c.w, resp |-> Reply(400, "error", "no_commands")]
                 ELSE LET r == send_to_face_arduino(v, port, Strip(f.command), c.w)
                      IN  [w |-> r.w, resp |-> Reply(200, StatusOf(r.ret), r.msg)]

Name_neutral == <<"n", "e", "u", "t", "r", "a", "l">>
Name_happy == <<"h", "a", "p", "p", "y">>
Name_surprise == <<"s", "u", "r", "p", "r", "i", "s", "e">>
Name_sad == <<"s", "a", "d">>
Name_blink == <<"b", "l", "i", "n", "k">>
Name_angry == <<"a", "n", "g", "r", "y">>
Name_talking == <<"t", "a", "l", "k", "i", "n", "g">>

expressions ==
    (Name_neutral :> [eyes |-> EYE_CENTER, mouth |-> MOUTH_MIN]) @@
    (Name_happy :> [eyes |-> 85, mouth |-> 60]) @@
    (Name_surprise :> [eyes |-> EYE_MAX, mouth |-> 40]) @@
    (Name_sad :> [eyes |-> EYE_MIN, mouth |-> 20]) @@
    (Name_blink :> [eyes |-> 100, mouth |-> MOUTH_MIN]) @@
    (Name_angry :> [eyes |-> 75, mouth |-> 10]) @@
    (Name_talking :> [eyes |-> EYE_CENTER, mouth |-> 60])

\* f"E{angles['eyes']} M{angles['mouth']}"
ExpressionCommand(angles) ==
    <<"E">> \o IntToStr(angles.eyes) \o <<" ", "M">> \o IntToStr(angles.mouth)

set_face_expression(v, port, data, w) ==
    LET c == CheckConnection(v, "face", port, w)
    IN  IF c.failed
        THEN [w |-> c.w, resp |-> Reply(503, "error", "not_connected")]
        ELSE IF Falsy(data)
        THEN [w |-> c.w, resp |-> Reply(400, "error", "no_data")]
        ELSE LET val == Get(data, "expression", StrV(<<>>))
             IN  IF val.t # "str"
                 THEN [w |-> c.w, resp |-> Reply(400, "error", "exception")]
                 ELSE LET expression == Lower(val.s)
                      IN  IF expression \in DOMAIN expressions
                          THEN LET r == send_to_face_arduino(v, port,
                                            ExpressionCommand(expressions[expression]), c.w)
                               IN  [w |-> r.w,
                                    resp |-> [Reply(200, StatusOf(r.ret), r.msg)
                                                  EXCEPT !.expression = expression]]
                          ELSE [w |-> c.w,
                                resp |-> Reply(400, "error", "unknown_expression")]

----------------------------------------------------------------------------
(* POST /debug/send, GET /status, POST /face_look *)

Text_hand == <<"h", "a", "n", "d">>
Text_face == <<"f", "a", "c", "e">>

debug_send(v, port, data, w) ==
    IF Falsy(data)
    THEN [w |-> w, resp |-> Reply(400, "error", "no_data")]
    ELSE LET command == Get(data, "command", StrV(<<>>))
             target  == Get(data, "target", StrV(Text_hand))
             link    == IF target = StrV(Text_hand) THEN "hand" ELSE "face"
             r == IF command.t = "str"
                  THEN IF link = "hand"
                       THEN send_to_hand_arduino(v, port, command.s, w)
                       ELSE send_to_face_arduino(v, port, command.s, w)
                  ELSE SendNonText(v, link, port, w)
         IN  [w |-> r.w, resp |-> Reply(200, StatusOf(r.ret), r.msg)]

\* a probe that reports the flag it read before the reconnect
ProbeStale(v, link, port, w) ==
    IF Handle(w, link) # "None" /\ Handle(w, link) = "open"
    THEN [w |-> w, connected |-> TRUE]
    ELSE [w |-> InitArduino(v, link, port, w).w, connected |-> FALSE]

\* a probe that reconnects whatever the state of the handle
ProbeAlways(v, link, port, w) ==
    LET r == InitArduino(v, link, port, w)
    IN  [w |-> r.w, connected |-> r.ret]

\* one link of get_status: [w, connected]
Probe(v, link, port, w) ==
    IF Handle(w, link) # "None" /\ Handle(w, link) = "open"
    THEN [w |-> w, connected |-> TRUE]
    ELSE LET r == InitArduino(v, link, port, w)
         IN  [w |-> r.w, connected |-> r.ret]

get_status(v, port, w) ==
    LET h == Probe(v, "hand", port, w)
        f == Probe(v, "face", port, h.w)
    IN  [w |-> f.w,
         resp |-> [Reply(200, "", "") EXCEPT !.hand_connected = h.connected,
                                              !.face_connected = f.connected]]

\* int(round(num / den)) for num >= 0, den > 0: round() takes halves to even
RoundHalfEven(num, den) ==
    LET q == num \div den
        r == num % den
    IN  IF 2 * r < den THEN q
        ELSE IF 2 * r > den THEN q + 1
        ELSE IF q % 2 = 0 THEN q ELSE q + 1

\* the mapping without the horizontal mirror: nx in the place of 1 - nx
face_to_servo_unmirrored(x_px, y_px) ==
    LET cx == Clamp(0, 640, x_px)
        cy == Clamp(0, 480, y_px)
        pan  == RoundHalfEven(EYE_PAN_MIN * 640 + cx * (EYE_PAN_MAX - EYE_PAN_MIN), 640)
        tilt == RoundHalfEven(EYE_TILT_MIN * 480 + cy * (EYE_TILT_MAX - EYE_TILT_MIN), 480)
    IN  <<pan, tilt>>

\* face_to_servo(x_px, y_px, 640, 480): <<pan, tilt>>.  nx = cx / 640 and
\* ny = cy / 480 with cx, cy the clamped pixels; pan and tilt are computed
\* over the common denominators 640 and 480 (the doubles of the source round
\* to the same integers over the frame and its margins).
face_to_servo(x_px, y_px) ==
    LET cx == Clamp(0, 640, x_px)
        cy == Clamp(0, 480, y_px)
        pan  == RoundHalfEven(EYE_PAN_MIN * 640 + (640 - cx) * (EYE_PAN_MAX - EYE_PAN_MIN), 640)
        tilt == RoundHalfEven(EYE_TILT_MIN * 480 + cy * (EYE_TILT_MAX - EYE_TILT_MIN), 480)
    IN  <<pan, tilt>>

\* f"E{pan} T{tilt}\n"
LookCommand(pt) ==
    <<"E">> \o IntToStr(pt[1]) \o <<" ", "T">> \o IntToStr(pt[2]) \o <<"\n">>

\* face_look has no try block: an int() that raises is answered 500 by Flask
face_look(v, port, data, w) ==
    LET d == IF Falsy(data) THEN Obj(<<>>) ELSE data
        x == PyInt(Get(d, "x", IntV(320)))
        y == PyInt(Get(d, "y", IntV(240)))
    IN  IF ~x.ok \/ ~y.ok
        THEN [w |-> w, resp |-> InternalServerError]
        ELSE LET pt == face_to_servo(x.n, y.n)
                 r  == send_to_face_arduino(v, port, LookCommand(pt), w)
             IN  [w |-> r.w,
                  resp |-> [Reply(200, StatusOf(r.ret), r.msg) EXCEPT !.angles = pt]]

\* __main__: both links are initialised before the server accepts requests
main(v, port, w) ==
    LET h == init_hand_arduino(v, port, w)
    IN  init_face_arduino(v, port, h.w).w

----------------------------------------------------------------------------
(* The requests the clients send *)

\* how many fields of a base body a client changes
MaxEdits == 1

\* how far outside the 640x480 frame a pixel coordinate lies
LookMargin == 8

Item(k, v) == [k |-> k, v |-> v]

Reverse(seq) == [i \in 1..Len(seq) |-> seq[Len(seq) + 1 - i]]

Without(items, key) == SelectSeq(items, LAMBDA it : it.k # key)

With(items, key, val) ==
    IF \E i \in DOMAIN items : items[i].k = key
    THEN [i \in DOMAIN items |-> IF items[i].k = key THEN Item(key, val) ELSE items[i]]
    ELSE Append(items, Item(key, val))

InputInts == {0 - 5, 90, 91, 181, 999}

HandKeySet == {HandKeys[i] : i \in DOMAIN HandKeys}

EditsOf(items) ==
    {With(items, k, IntV(n)) : k \in HandKeySet, n \in InputInts}
        \cup {Without(items, k) : k \in HandKeySet}

RECURSIVE Edited(_, _)
Edited(S, n) ==
    IF n = 0 THEN S
    ELSE LET P == Edited(S, n - 1) IN P \cup UNION {EditsOf(b) : b \in P}

ExampleItems ==
    <<Item("wrist", IntV(30)), Item("f1", IntV(0)), Item("f2", IntV(0)),
      Item("f3", IntV(0)), Item("f4", IntV(180)), Item("f5", IntV(180)),
      Item("f6", IntV(0))>>

WildItems ==
    <<Item("f6", IntV(0 - 1)), Item("f5", IntV(200)), Item("wrist", IntV(999)),
      Item("f1", IntV(0 - 5)), Item("f3", IntV(181)), Item("speed", IntV(7))>>

Text_abc == <<"a", "b", "c">>
Text_45 == <<"4", "5">>

HandBodies ==
    {NoBody}
        \cup {Obj(b) : b \in Edited({<<>>, Reverse(ExampleItems)}, MaxEdits)}
        \cup {Obj(ExampleItems), Obj(WildItems),
              Obj(<<Item("speed", IntV(3))>>),
              Obj(<<Item("wrist", StrV(Text_abc))>>),
              Obj(<<Item("f1", StrV(Text_45)), Item("wrist", IntV(45))>>)}

EyeInputs == {0 - 5, 69, 70, 85, 110, 111, 999}

MouthInputs == {0 - 5, 0, 60, 80, 81, 999}

FaceBodies ==
    {NoBody, Obj(<<>>), Obj(<<Item("speed", IntV(3))>>),
     Obj(<<Item("eyes", StrV(Text_abc))>>),
     Obj(<<Item("eyes", IntV(85)), Item("mouth", StrV(Text_abc))>>),
     Obj(<<Item("mouth", StrV(Text_45))>>)}
        \cup {Obj(<<Item("eyes", IntV(e))>>) : e \in EyeInputs}
        \cup {Obj(<<Item("mouth", IntV(m))>>) : m \in MouthInputs}
        \cup {Obj(<<Item("eyes", IntV(e)), Item("mouth", IntV(m))>>) :
                  e \in EyeInputs, m \in MouthInputs}
        \cup {Obj(<<Item("mouth", IntV(m)), Item("eyes", IntV(e))>>) :
                  e \in EyeInputs, m \in MouthInputs}

Name_HAPPY == <<"H", "A", "P", "P", "Y">>
Name_Sad == <<"S", "a", "d">>
Name_ecstatic == <<"e", "c", "s", "t", "a", "t", "i", "c">>

ExpressionInputs ==
    DOMAIN expressions \cup {Name_HAPPY, Name_Sad, Name_ecstatic, <<>>, <<"h", "a", "p", "p", "y", " ">>}

ExpressionBodies ==
    {NoBody, Obj(<<>>), Obj(<<Item("name", StrV(Name_happy))>>),
     Obj(<<Item("expression", IntV(5))>>)}
        \cup {Obj(<<Item("expression", StrV(n))>>) : n \in ExpressionInputs}

DebugCommands ==
    {StrV(<<"9", "9", "9", ",", "0", ",", "0", ",", "0", ",", "0", ",", "0", ",", "0">>),
     StrV(<<"3", "0", ",", "0", ",", "0", ",", "0", ",", "1", "8", "0", ",", "1", "8", "0", ",", "0", "\n">>),
     StrV(<<"E", "2", "0", "0", " ", "M", "0">>),
     StrV(<<"h", "e", "l", "l", "o">>),
     StrV(<<>>),
     IntV(7)}

DebugTargets == {StrV(Text_hand), StrV(Text_face), StrV(Text_abc), IntV(1)}

DebugBodies ==
    {NoBody, Obj(<<>>), Obj(<<Item("target", StrV(Text_face))>>)}
        \cup {Obj(<<Item("command", c)>>) : c \in DebugCommands}
        \cup {Obj(<<Item("command", c), Item("target", t)>>) :
                  c \in DebugCommands, t \in DebugTargets}

LookBody(x, y) == Obj(<<Item("x", IntV(x)), Item("y", IntV(y))>>)

LookBodies ==
    {NoBody, Obj(<<>>), Obj(<<Item("x", StrV(Text_abc))>>),
     Obj(<<Item("y", IntV(480))>>), Obj(<<Item("x", IntV(0))>>)}
        \cup {LookBody(x, y) : x \in {0 - 5, 0, 8, 320, 640, 999},
                               y \in {0 - 5, 0, 6, 240, 480, 999}}

\* pixels at every servo degree and half degree, and every pixel near the edges
LookXs ==
    {8 * k : k \in 0..(640 \div 8)}
        \cup ((0 - LookMargin)..24) \cup (616..(640 + LookMargin))

LookYs ==
    {6 * k : k \in 0..(480 \div 6)}
        \cup ((0 - LookMargin)..18) \cup (462..(480 + LookMargin))

SweepBodies ==
    {Obj(<<Item("x", IntV(x))>>) : x \in LookXs}
        \cup {Obj(<<Item("y", IntV(y))>>) : y \in LookYs}
        \cup {LookBody(x, y) : x \in {0, 640, 999}, y \in {0 - 5, 0, 480}}

----------------------------------------------------------------------------
(* The camera: handles, candidates and the threads that use them *)

CAMERA_INDEX == 0

\* `camera = None`
NoCamera == [none |-> TRUE, id |-> 0, opened |-> FALSE, yields |-> FALSE]

\* what cv2.VideoCapture(idx) can return: a handle that is not opened
\* ("absent"), one that is opened and whose reads fail ("noframe"), one
\* whose reads can deliver a frame ("ok")
CameraKinds == {"ok", "noframe", "absent"}

VideoCapture(kind, id) ==
    [none |-> FALSE, id |-> id, opened |-> kind # "absent", yields |-> kind = "ok"]

\* the indices init_camera tries, in order
Candidates(v) ==
    IF v = "volt" THEN <<CAMERA_INDEX, 0, 2, 3>> ELSE <<CAMERA_INDEX>>

\* the reads init_camera makes on one opened index
Retries(v) == IF v = "volt" THEN 5 ELSE 1

\* handles that deliver frames are numbered; no more than MaxSessions exist
MaxSessions == 2

\* the threads Flask runs for camera requests, and the capture threads
Requests == {"r1", "r2"}

Captures == {"c1", "c2"}

\* a request thread: where it is in its handler and the handler's locals
IdleThread ==
    [pc |-> "idle", op |-> "none", code |-> 0, k |-> 0, tries |-> 0,
     got |-> FALSE, was_running |-> FALSE, frame |-> 0, launched |-> FALSE]

Entered(op, at) == [IdleThread EXCEPT !.op = op, !.pc = at]

Answered(r, code) == [r EXCEPT !.pc = "done", !.code = code]

\* an init_camera that gives up after the first index
FirstCandidateOnly(v, r) == Answered(r, 500)

\* init_camera goes on to the next index, or returns False after the last
NextCandidate(v, r) ==
    IF r.k < Len(Candidates(v))
    THEN [r EXCEPT !.pc = "open", !.k = r.k + 1, !.tries = 0]
    ELSE Answered(r, 500)

\* an exception inside init_camera: the volt variant goes on with the next
\* index, the pi variant returns False
CameraRaised(v, r) == IF v = "volt" THEN NextCandidate(v, r) ELSE Answered(r, 500)

\* a snapshot that looks at the slot only
camera_snapshot_of_slot(running, frame) ==
    IF frame = 0 THEN 503 ELSE 200

\* camera_snapshot: the response for the flag and the slot it reads
camera_snapshot(running, frame) ==
    IF ~running \/ frame = 0 THEN 503 ELSE 200

\* a slot that keeps its first frame
StoredOnce(ret, frame, slot) == IF ret /\ slot = 0 THEN frame ELSE slot

\* camera_thread_func: `if ret: ... latest_frame = frame`
Stored(ret, frame, slot) == IF ret THEN frame ELSE slot

\* the generators that GET /camera/stream requests have created
Streams == {"s1"}

\* a generator: where it is, whether its first test of the flag found it
\* False, and whether it has yielded a frame
NoStream == [pc |-> "none", tested |-> FALSE, off |-> FALSE, yielded |-> FALSE]

\* a generator that goes on whatever the flag says
StreamGoesOnAlways(running) == TRUE

\* generate: `while camera_running:`
StreamGoesOn(running) == running

----------------------------------------------------------------------------
(* HandAnimator of the desktop client (app/animators.py) *)

\* a step of a gesture: the text of seven angles
StepText(ns) == JoinComma(ns)

\* HAND_GESTURES of app/config.py: the one-step gesture "open" and the
\* six-step gesture "hello"; and gestures with a step that is not seven
\* integers, one too short and one with a word in it
HAND_GESTURES ==
    [open  |-> <<StepText(<<0, 0, 0, 0, 180, 180, 0>>)>>,
     hello |-> <<StepText(<<50, 0, 0, 180, 180, 180, 0>>),
                 StepText(<<0, 0, 0, 180, 180, 180, 0>>),
                 StepText(<<50, 0, 0, 180, 180, 180, 0>>),
                 StepText(<<0, 0, 0, 180, 180, 180, 0>>),
                 StepText(<<50, 0, 0, 180, 180, 180, 0>>),
                 StepText(<<0, 0, 0, 180, 180, 180, 0>>)>>,
     short |-> <<StepText(<<50, 0, 0, 180, 180, 180, 0>>),
                 StepText(<<0, 0, 0, 180, 180, 180>>),
                 StepText(<<50, 0, 0, 180, 180, 180, 0>>)>>,
     word  |-> <<StepText(<<0, 180, 180, 180, 0, 0, 180>>),
                 StepText(<<0, 180, 180>>) \o <<",", "f", "4", ",">> \o StepText(<<0, 0, 180>>),
                 StepText(<<0, 0, 0, 0, 180, 180, 0>>)>>]

GestureNames == DOMAIN HAND_GESTURES

\* how many calls of execute_gesture_sequence the model follows
MaxCalls == 3

\* the fields of a step read as integers, whatever their number
ParseAnglesAnyCount(angle_str) ==
    LET fields == SplitAt(angle_str, ",")
        parsed == [i \in DOMAIN fields |-> ParseInt(fields[i])]
    IN  [ok |-> \A i \in DOMAIN parsed : parsed[i].ok,
         angles |-> [i \in DOMAIN parsed |-> parsed[i].n]]

\* _execute_next_step: `list(map(int, angle_str.split(',')))` and the test
\* `len(angles_list) != 7`; ok is FALSE where the try block raises
ParseAngles(angle_str) ==
    LET fields == SplitAt(angle_str, ",")
        parsed == [i \in DOMAIN fields |-> ParseInt(fields[i])]
    IN  [ok |-> (\A i \in DOMAIN parsed : parsed[i].ok) /\ Len(fields) = 7,
         angles |-> [i \in DOMAIN parsed |-> parsed[i].n]]

\* a callback of QTimer.singleShot: the run it belongs to and its index
Timer(run, index) == [run |-> run, index |-> index]

\* a command given to ConnectionManager.send_hand_command and its result
Sent(run, index, angles, success) ==
    [run |-> run, index |-> index, angles |-> angles, success |-> success]

\* the animator: its flag, its pending callbacks, what it has sent, its
\* latest log message
Animator == [is_running |-> is_running, timers |-> timers, sent |-> sent, note |-> note]

\* _execute_next_step(index, sequences, gesture_name) of the run, on the
\* animator a; success is the result of the command it sends, if it sends
\* one.  The index of the code counts from 0.
_execute_next_step(a, run, index, sequences, success) ==
    IF index >= Len(sequences) \/ ~a.is_running
    THEN [a EXCEPT !.is_running = FALSE, !.note = "done"]
    ELSE LET p == ParseAngles(sequences[index + 1])
         IN  IF ~p.ok
             THEN [a EXCEPT !.is_running = FALSE, !.note = "parse_error"]
             ELSE IF ~success
             THEN [a EXCEPT !.is_running = FALSE, !.note = "send_error",
                            !.sent = Append(@, Sent(run, index, p.angles, FALSE))]
             ELSE [a EXCEPT !.sent = Append(@, Sent(run, index, p.angles, TRUE)),
                            !.timers = @ \cup {Timer(run, index + 1)}]

----------------------------------------------------------------------------
(* The threads that write to the serial links *)

Writers == {"w1", "w2"}

IdleWriter == [pc |-> "idle", op |-> "none", link |-> "hand", ret |-> FALSE, n |-> 0]

NoSerialThreads == [t \in Writers |-> IdleWriter]

\* a lock that lets every thread in
CanEnterAlways(holder) == TRUE

\* `with serial_lock:` is entered when no thread holds the lock
CanEnter(holder) == holder = "free"

\* the positions between `with serial_lock:` and the end of its block
InSection == {"init_write", "init_flush", "send_write", "send_flush"}

\* the positions where a thread stands before `with serial_lock:`
AtLock == {"init_lock", "send_lock"}

----------------------------------------------------------------------------
(* The state machine: one action per request handler *)

NoReq == [op |-> "none", body |-> NoBody]

\* no previous request
NoLast ==
    [req |-> NoReq, resp |-> NoResp, log |-> <<>>,
     pre |-> [hand |-> "None", face |-> "None"],
     hand |-> "None", face |-> "None",
     cam |-> <<NoCamera, FALSE, 0>>]

Init ==
    /\ variant \in {"pi", "volt"}
    /\ hand_arduino = "None"
    /\ face_arduino = "None"
    /\ device \in [Links -> PortStates]
    /\ pc = "boot"
    /\ req = NoReq
    /\ resp = NoResp
    /\ log = <<>>
    /\ pre = [hand |-> "None", face |-> "None"]
    /\ last = NoLast
    /\ camera = NoCamera
    /\ camera_running = FALSE
    /\ latest_frame = 0
    /\ camera_lock = "free"
    /\ sessions = 0
    /\ started = FALSE
    /\ th = [t \in Requests |-> IdleThread]
    /\ cap = [c \in Captures |-> "none"]
    /\ last_read = 0
    /\ read_failed = FALSE
    /\ stream = [s \in Streams |-> NoStream]
    /\ serial_lock = "free"
    /\ st = NoSerialThreads
    /\ begun = <<>>
    /\ gen = [link \in Links |-> 0]
    /\ outbuf = [link \in Links |-> <<>>]
    /\ wire = [link \in Links |-> <<>>]
    /\ order = [link \in Links |-> <<>>]
    /\ okd = {}
    /\ dropped = [link \in Links |-> 0]
    /\ is_running = FALSE
    /\ timers = {}
    /\ sent = <<>>
    /\ runs = <<>>
    /\ calls = 0
    /\ note = ""

World == [hand |-> hand_arduino, face |-> face_arduino, log |-> <<>>]

\* the handler has run: its effects on the links and its response
Commit(op, body, w, r) ==
    /\ hand_arduino' = w.hand
    /\ face_arduino' = w.face
    /\ log' = w.log
    /\ resp' = IF op = "main" THEN r ELSE after_request(r)
    /\ req' = [op |-> op, body |-> body]
    /\ pre' = [hand |-> hand_arduino, face |-> face_arduino]
    /\ pc' = "done"
    /\ UNCHANGED <<variant, device, last, camvars, servars, animvars>>

Startup ==
    /\ pc = "boot"
    /\ Commit("main", NoBody, main(variant, device, World), NoResp)

PostHand(body) ==
    /\ pc = "idle"
    /\ LET r == set_hand(variant, device, body, World)
       IN  Commit("hand", body, r.w, r.resp)

PostFace(body) ==
    /\ pc = "idle"
    /\ LET r == set_face(variant, device, body, World)
       IN  Commit("face", body, r.w, r.resp)

PostFaceExpression(body) ==
    /\ pc = "idle"
    /\ LET r == set_face_expression(variant, device, body, World)
       IN  Commit("face_expression", body, r.w, r.resp)

PostDebugSend(body) ==
    /\ pc = "idle"
    /\ LET r == debug_send(variant, device, body, World)
       IN  Commit("debug_send", body, r.w, r.resp)

GetStatus ==
    /\ pc = "idle"
    /\ LET r == get_status(variant, device, World)
       IN  Commit("status", NoBody, r.w,
                  [r.resp EXCEPT !.camera_running = camera_running])

\* the route exists in the volt variant only
PostFaceLook(body) ==
    /\ pc = "idle"
    /\ variant = "volt"
    /\ LET r == face_look(variant, device, body, World)
       IN  Commit("face_look", body, r.w, r.resp)

\* an OPTIONS request, to any path: before_request answers it without
\* looking at the path, and no handler runs
Options ==
    /\ pc = "idle"
    /\ Commit("options", NoBody, World, before_request(variant))

\* the response leaves; the request's locals are gone
Deliver ==
    /\ pc = "done"
    /\ pc' = "idle"
    /\ req' = NoReq
    /\ resp' = NoResp
    /\ log' = <<>>
    /\ pre' = [hand |-> hand_arduino, face |-> face_arduino]
    /\ UNCHANGED <<variant, hand_arduino, face_arduino, device, last, camvars, servars, animvars>>

\* a device is unplugged, plugged in again or stops reading
DeviceChange(link, s) ==
    /\ pc = "idle"
    /\ s # device[link]
    /\ device' = [device EXCEPT ![link] = s]
    /\ UNCHANGED <<variant, hand_arduino, face_arduino, pc, req, resp, log, pre,
                   last, camvars, servars, animvars>>

Next ==
    \/ Startup
    \/ \E body \in HandBodies : PostHand(body)
    \/ \E body \in FaceBodies : PostFace(body)
    \/ \E body \in ExpressionBodies : PostFaceExpression(body)
    \/ \E body \in DebugBodies : PostDebugSend(body)
    \/ GetStatus
    \/ \E body \in LookBodies : PostFaceLook(body)
    \/ Options
    \/ Deliver
    \/ \E link \in Links, s \in PortStates : DeviceChange(link, s)

Spec == Init /\ [][Next]_vars

\* the same client keeps the previous answer while it sends the next look
Retain ==
    /\ pc = "done"
    /\ pc' = "idle"
    /\ UNCHANGED <<variant, hand_arduino, face_arduino, device, req, resp, log, pre,
                   last, camvars, servars, animvars>>

NextLook ==
    \/ Startup
    \/ \E body \in SweepBodies : PostFaceLook(body)
    \/ Retain

SpecLook == Init /\ [][NextLook]_vars

\* the commands a client repeats
RepeatHandBodies ==
    {Obj(ExampleItems), Obj(WildItems), Obj(<<Item("speed", IntV(3))>>),
     Obj(<<Item("wrist", StrV(Text_abc))>>), Obj(<<>>)}

RepeatFaceBodies ==
    {Obj(<<Item("eyes", IntV(85))>>), Obj(<<Item("mouth", IntV(999))>>),
     Obj(<<Item("eyes", IntV(0 - 5)), Item("mouth", IntV(60))>>),
     Obj(<<Item("speed", IntV(3))>>)}

\* the response leaves; the client remembers the request, the answer and
\* what the server was left with, and sends its next request
Remember ==
    /\ pc = "done"
    /\ pc' = "idle"
    /\ last' = [req |-> req, resp |-> resp, log |-> log, pre |-> pre,
                hand |-> hand_arduino, face |-> face_arduino,
                cam |-> <<camera, camera_running, latest_frame>>]
    /\ req' = NoReq
    /\ resp' = NoResp
    /\ log' = <<>>
    /\ pre' = [hand |-> hand_arduino, face |-> face_arduino]
    /\ UNCHANGED <<variant, hand_arduino, face_arduino, device, camvars, servars, animvars>>

NextTwice ==
    \/ Startup
    \/ \E body \in RepeatHandBodies : PostHand(body)
    \/ \E body \in RepeatFaceBodies : PostFace(body)
    \/ Remember

SpecTwice == Init /\ [][NextTwice]_vars

----------------------------------------------------------------------------
(* The camera routes, one action per step between two accesses to the      *)
(* globals; Flask runs the handlers in threads (threaded=True).            *)

Alive == {c \in Captures : cap[c] # "none"}

Starting == {t \in Requests : th[t].op = "start" /\ th[t].pc \notin {"idle", "done"}}

Step(t, r) == th' = [th EXCEPT ![t] = r]

\* POST /camera/start arrives; every thread it may launch has a place
BeginStart(t) ==
    /\ th[t].pc = "idle"
    /\ Cardinality(Alive) + Cardinality(Starting) < Cardinality(Captures)
    /\ Step(t, Entered("start", "start_check"))
    /\ UNCHANGED <<linkvars, servars, animvars, last_read, read_failed, stream, camera, camera_running, latest_frame,
                   camera_lock, sessions, cap, started>>

\* start_camera: `if not camera_running`
StartCheck(t) ==
    /\ th[t].pc = "start_check"
    /\ IF ~camera_running
       THEN Step(t, [th[t] EXCEPT !.pc = "open", !.k = 1, !.was_running = FALSE])
       ELSE Step(t, Answered([th[t] EXCEPT !.was_running = TRUE], 200))
    /\ UNCHANGED <<linkvars, servars, animvars, last_read, read_failed, stream, camera, camera_running, latest_frame,
                   camera_lock, sessions, cap, started>>

\* init_camera: `camera = cv2.VideoCapture(idx)`
Open(t, kind) ==
    /\ th[t].pc = "open"
    /\ kind = "ok" => sessions < MaxSessions
    /\ sessions' = IF kind = "ok" THEN sessions + 1 ELSE sessions
    /\ camera' = VideoCapture(kind, IF kind = "ok" THEN sessions + 1 ELSE 0)
    /\ Step(t, [th[t] EXCEPT !.pc = "isOpened"])
    /\ UNCHANGED <<linkvars, servars, animvars, last_read, read_failed, stream, camera_running, latest_frame, camera_lock, cap, started>>

\* init_camera: `if camera.isOpened()` on the global, which a stop may
\* have set to None in between
IsOpened(t) ==
    /\ th[t].pc = "isOpened"
    /\ Step(t, IF camera.none THEN CameraRaised(variant, th[t])
               ELSE IF camera.opened THEN [th[t] EXCEPT !.pc = "read", !.tries = 0]
               ELSE NextCandidate(variant, th[t]))
    /\ UNCHANGED <<linkvars, servars, animvars, last_read, read_failed, stream, camera, camera_running, latest_frame,
                   camera_lock, sessions, cap, started>>

\* init_camera: one `ret, frame = camera.read()`; on ret the flag is set
Read(t, ret) ==
    /\ th[t].pc = "read"
    /\ ret => ~camera.none /\ camera.opened /\ camera.yields
    /\ IF camera.none
       THEN /\ Step(t, CameraRaised(variant, th[t]))
            /\ UNCHANGED camera_running
       ELSE IF ret
       THEN /\ camera_running' = TRUE
            /\ Step(t, [th[t] EXCEPT !.pc = "spawn", !.got = TRUE])
       ELSE /\ Step(t, IF th[t].tries + 1 < Retries(variant)
                       THEN [th[t] EXCEPT !.tries = @ + 1]
                       ELSE NextCandidate(variant, th[t]))
            /\ UNCHANGED camera_running
    /\ UNCHANGED <<linkvars, servars, animvars, last_read, read_failed, stream, camera, latest_frame, camera_lock, sessions, cap, started>>

FreeCapture == CHOOSE c \in Captures : cap[c] = "none"

\* start_camera: `camera_running = True`, the thread is started
Spawn(t) ==
    /\ th[t].pc = "spawn"
    /\ camera_running' = TRUE
    /\ started' = TRUE
    /\ cap' = [cap EXCEPT ![FreeCapture] = "while"]
    /\ Step(t, Answered([th[t] EXCEPT !.launched = TRUE], 200))
    /\ UNCHANGED <<linkvars, servars, animvars, last_read, read_failed, stream, camera, latest_frame, camera_lock, sessions>>

\* POST /camera/stop arrives
BeginStop(t) ==
    /\ th[t].pc = "idle"
    /\ Step(t, Entered("stop", "stop_flag"))
    /\ UNCHANGED <<linkvars, servars, animvars, last_read, read_failed, stream, camera, camera_running, latest_frame,
                   camera_lock, sessions, cap, started>>

\* stop_camera: `camera_running = False` (the volt variant then sleeps)
StopFlag(t) ==
    /\ th[t].pc = "stop_flag"
    /\ camera_running' = FALSE
    /\ Step(t, [th[t] EXCEPT !.pc = "stop_test"])
    /\ UNCHANGED <<linkvars, servars, animvars, last_read, read_failed, stream, camera, latest_frame, camera_lock, sessions, cap, started>>

\* stop_camera: `if camera:`
StopTest(t) ==
    /\ th[t].pc = "stop_test"
    /\ Step(t, IF camera.none THEN Answered(th[t], 200)
               ELSE [th[t] EXCEPT !.pc = "stop_lock"])
    /\ UNCHANGED <<linkvars, servars, animvars, last_read, read_failed, stream, camera, camera_running, latest_frame,
                   camera_lock, sessions, cap, started>>

\* stop_camera: `with camera_lock:`
StopLock(t) ==
    /\ th[t].pc = "stop_lock"
    /\ camera_lock = "free"
    /\ camera_lock' = t
    /\ Step(t, [th[t] EXCEPT !.pc = "stop_release"])
    /\ UNCHANGED <<linkvars, servars, animvars, last_read, read_failed, stream, camera, camera_running, latest_frame,
                   sessions, cap, started>>

\* stop_camera: `camera.release()` on the global; on None the attribute
\* lookup raises, the lock is left and the except branch answers 500
StopRelease(t) ==
    /\ th[t].pc = "stop_release"
    /\ IF camera.none
       THEN /\ camera_lock' = "free"
            /\ Step(t, Answered(th[t], 500))
            /\ UNCHANGED camera
       ELSE /\ camera' = [camera EXCEPT !.opened = FALSE]
            /\ Step(t, [th[t] EXCEPT !.pc = "stop_none"])
            /\ UNCHANGED camera_lock
    /\ UNCHANGED <<linkvars, servars, animvars, last_read, read_failed, stream, camera_running, latest_frame, sessions, cap, started>>

\* stop_camera: `camera = None`, the lock is left, the success response
StopNone(t) ==
    /\ th[t].pc = "stop_none"
    /\ camera' = NoCamera
    /\ camera_lock' = "free"
    /\ Step(t, Answered(th[t], 200))
    /\ UNCHANGED <<linkvars, servars, animvars, last_read, read_failed, stream, camera_running, latest_frame, sessions, cap, started>>

\* GET /camera/snapshot: the flag and the slot are read, the slot is encoded
Snapshot(t) ==
    /\ th[t].pc = "idle"
    /\ Step(t, Answered([Entered("snapshot", "idle") EXCEPT
                            !.was_running = camera_running,
                            !.frame = latest_frame],
                        camera_snapshot(camera_running, latest_frame)))
    /\ UNCHANGED <<linkvars, servars, animvars, last_read, read_failed, stream, camera, camera_running, latest_frame,
                   camera_lock, sessions, cap, started>>

\* the response of a camera request leaves
Answer(t) ==
    /\ th[t].pc = "done"
    /\ Step(t, IdleThread)
    /\ UNCHANGED <<linkvars, servars, animvars, last_read, read_failed, stream, camera, camera_running, latest_frame,
                   camera_lock, sessions, cap, started>>

\* camera_thread_func: `while camera_running:`; the thread ends on False
LoopTest(c) ==
    /\ cap[c] = "while"
    /\ cap' = [cap EXCEPT ![c] = IF camera_running THEN "section" ELSE "none"]
    /\ UNCHANGED <<linkvars, servars, animvars, last_read, read_failed, stream, camera, camera_running, latest_frame,
                   camera_lock, sessions, th, started>>

\* camera_thread_func: the block under camera_lock.  A read delivers a
\* frame (ret) or fails; the frame goes to the slot; then the thread sleeps
LoopSection(c, ret) ==
    /\ cap[c] = "section"
    /\ camera_lock = "free"
    /\ ret => ~camera.none /\ camera.opened /\ camera.yields
    /\ latest_frame' = Stored(ret, camera.id, latest_frame)
    /\ last_read' = IF ret THEN camera.id ELSE last_read
    /\ read_failed' = ~ret
    /\ cap' = [cap EXCEPT ![c] = "while"]
    /\ UNCHANGED <<linkvars, servars, animvars, stream, camera, camera_running, camera_lock,
                   sessions, th, started>>

\* the steps of the handlers that are under way, and of the capture threads
CameraSteps ==
    \E t \in Requests :
        \/ StartCheck(t)
        \/ \E kind \in CameraKinds : Open(t, kind)
        \/ IsOpened(t)
        \/ \E ret \in BOOLEAN : Read(t, ret)
        \/ Spawn(t)
        \/ StopFlag(t)
        \/ StopTest(t)
        \/ StopLock(t)
        \/ StopRelease(t)
        \/ StopNone(t)
        \/ Answer(t)

CaptureSteps ==
    \E c \in Captures :
        \/ LoopTest(c)
        \/ \E ret \in BOOLEAN : LoopSection(c, ret)

\* camera requests that overlap
NextCam ==
    \/ \E t \in Requests : BeginStart(t)
    \/ \E t \in Requests : BeginStop(t)
    \/ \E t \in Requests : Snapshot(t)
    \/ CameraSteps
    \/ CaptureSteps

\* the links take no part: both devices are plugged in
InitCam == Init /\ device = [link \in Links |-> "ok"]

SpecCam == InitCam /\ [][NextCam]_vars

\* one client: each camera request is sent after the previous one was
\* answered; GET /status is served beside them
NextCamSeq ==
    \/ Startup
    \/ GetStatus
    \/ Deliver
    \/ BeginStart("r1")
    \/ BeginStop("r1")
    \/ Snapshot("r1")
    \/ CameraSteps
    \/ CaptureSteps

SpecCamSeq == Init /\ [][NextCamSeq]_vars

AllIdle == \A t \in Requests : th[t].pc = "idle"

NoStart == \A t \in Requests : th[t].op # "start"

\* stop requests that overlap each other; a start is sent when every
\* request was answered, and no stop is sent before the start is answered
NextCamStops ==
    \/ \E t \in Requests : AllIdle /\ BeginStart(t)
    \/ \E t \in Requests : NoStart /\ BeginStop(t)
    \/ \E t \in Requests : Snapshot(t)
    \/ CameraSteps
    \/ CaptureSteps

SpecCamStops == InitCam /\ [][NextCamStops]_vars

\* GET /camera/stream: the response is built around generate()
BeginStream(s) ==
    /\ stream[s].pc = "none"
    /\ stream' = [stream EXCEPT ![s] = [NoStream EXCEPT !.pc = "while"]]
    /\ UNCHANGED <<linkvars, servars, animvars, camera, camera_running, latest_frame,
                   camera_lock, sessions, started, th, cap, last_read, read_failed>>

\* generate: `while camera_running:`; the generator ends on False
StreamTest(s) ==
    /\ stream[s].pc = "while"
    /\ stream' = [stream EXCEPT ![s] =
                     [pc |-> IF StreamGoesOn(camera_running) THEN "body" ELSE "none",
                      tested |-> TRUE,
                      off |-> IF stream[s].tested THEN stream[s].off ELSE ~camera_running,
                      yielded |-> stream[s].yielded]]
    /\ UNCHANGED <<linkvars, servars, animvars, camera, camera_running, latest_frame,
                   camera_lock, sessions, started, th, cap, last_read, read_failed>>

\* generate: `if latest_frame is not None:` the frame is encoded and, when
\* imencode returns it (ok), yielded; then the generator sleeps
StreamBody(s, ok) ==
    /\ stream[s].pc = "body"
    /\ stream' = [stream EXCEPT ![s] =
                     [stream[s] EXCEPT !.pc = "while",
                                       !.yielded = @ \/ (latest_frame # 0 /\ ok)]]
    /\ UNCHANGED <<linkvars, servars, animvars, camera, camera_running, latest_frame,
                   camera_lock, sessions, started, th, cap, last_read, read_failed>>

StreamSteps(s) ==
    \/ StreamTest(s)
    \/ \E ok \in BOOLEAN : StreamBody(s, ok)

\* one client starts and stops the camera while streams are served
NextStream ==
    \/ BeginStart("r1")
    \/ BeginStop("r1")
    \/ CameraSteps
    \/ CaptureSteps
    \/ \E s \in Streams : BeginStream(s)
    \/ \E s \in Streams : StreamSteps(s)

\* every thread that can take a step takes one; a capture thread that
\* waits for camera_lock gets it when the lock is free again and again
Fair ==
    /\ WF_vars(CameraSteps)
    /\ \A c \in Captures : WF_vars(LoopTest(c))
    /\ \A c \in Captures : SF_vars(\E ret \in BOOLEAN : LoopSection(c, ret))
    /\ \A s \in Streams : WF_vars(StreamSteps(s))

SpecStream == InitCam /\ [][NextStream]_vars /\ Fair

----------------------------------------------------------------------------
(* The serial links under concurrent requests: one action per step between *)
(* two accesses to the globals hand_arduino, face_arduino and serial_lock. *)

Global(link) == IF link = "hand" THEN hand_arduino ELSE face_arduino

Assign(link, h) ==
    IF link = "hand"
    THEN hand_arduino' = h /\ UNCHANGED face_arduino
    ELSE face_arduino' = h /\ UNCHANGED hand_arduino

Move(t, r) == st' = [st EXCEPT ![t] = r]

At(t, pos) == [st[t] EXCEPT !.pc = pos]

Returned(t, ret) == [st[t] EXCEPT !.pc = "done", !.ret = ret]

\* what no step of a serial thread changes
SerialFrame ==
    UNCHANGED <<variant, device, pc, req, resp, log, pre, last, camvars, animvars>>

\* how many sends and connects the model follows
MaxOps == 2

\* a line written to the h-th handle of the link by the n-th call begun:
\* the command of a send, or the test line of init_*_arduino
Line(n, h, test) == [n |-> n, h |-> h, test |-> test]

\* a call is begun: its number is its place in the order of the calls
Called(op, link) == [op |-> op, link |-> link]

\* the global of the link is assigned to, or the handle is closed: a
\* handle that was open and is let go of without close() is counted
LetGo(link, h) ==
    /\ Assign(link, h)
    /\ dropped' = [dropped EXCEPT ![link] =
                      IF Global(link) = "open" /\ h # "closed" THEN @ + 1 ELSE @]

\* x.write(...): the line is in the output buffer of the port
Written(link, n, test) ==
    outbuf' = [outbuf EXCEPT ![link] = Append(@, Line(n, gen[link], test))]

\* x.flush() returns when the output buffer has left the port
Flushed(link) ==
    /\ wire' = [wire EXCEPT ![link] = @ \o outbuf[link]]
    /\ outbuf' = [outbuf EXCEPT ![link] = <<>>]

\* x.reset_output_buffer() discards what was written to the handle and has
\* not left the port
RECURSIVE WithoutHandle(_, _)
WithoutHandle(lines, h) ==
    IF lines = <<>> THEN <<>>
    ELSE IF Head(lines).h = h THEN WithoutHandle(Tail(lines), h)
    ELSE <<Head(lines)>> \o WithoutHandle(Tail(lines), h)

\* a handler calls send_to_hand_arduino or send_to_face_arduino
BeginSend(t, link) ==
    /\ st[t].pc = "idle"
    /\ Len(begun) < MaxOps
    /\ begun' = Append(begun, Called("send", link))
    /\ Move(t, [IdleWriter EXCEPT !.pc = "send_check", !.op = "send", !.link = link,
                                  !.n = Len(begun) + 1])
    /\ UNCHANGED <<hand_arduino, face_arduino, serial_lock>>
    /\ UNCHANGED <<gen, outbuf, wire, order, okd, dropped>>
    /\ SerialFrame

\* get_status, or the check at the top of a pi handler, finds the link
\* not open and calls init_hand_arduino or init_face_arduino
BeginConnect(t, link) ==
    /\ st[t].pc = "idle"
    /\ Len(begun) < MaxOps
    /\ NotOpen(Global(link))
    /\ begun' = Append(begun, Called("connect", link))
    /\ Move(t, [IdleWriter EXCEPT !.pc = "init_close", !.op = "connect", !.link = link,
                                  !.n = Len(begun) + 1])
    /\ UNCHANGED <<hand_arduino, face_arduino, serial_lock>>
    /\ UNCHANGED <<gen, outbuf, wire, order, okd, dropped>>
    /\ SerialFrame

\* send_to_*_arduino: `if x is None or not x.is_open`; the volt variant
\* reconnects, the pi variant returns the failure
SendCheck(t) ==
    /\ st[t].pc = "send_check"
    /\ Move(t, IF ~NotOpen(Global(st[t].link)) THEN At(t, "send_lock")
               ELSE IF variant = "volt" THEN At(t, "init_close")
               ELSE Returned(t, FALSE))
    /\ UNCHANGED <<hand_arduino, face_arduino, serial_lock>>
    /\ UNCHANGED <<begun, gen, outbuf, wire, order, okd, dropped>>
    /\ SerialFrame

\* init_*_arduino: `if x and x.is_open: x.close()`
InitClose(t) ==
    /\ st[t].pc = "init_close"
    /\ LetGo(st[t].link, IF Global(st[t].link) = "open" THEN "closed"
                         ELSE Global(st[t].link))
    /\ Move(t, At(t, "init_open"))
    /\ UNCHANGED serial_lock
    /\ UNCHANGED <<begun, gen, outbuf, wire, order, okd>>
    /\ SerialFrame

\* serial.Serial(...) raises on an absent port and, on the COM port of the
\* volt variant, on a port that another handle holds open
OpenRaises(link) ==
    \/ device[link] = "absent"
    \/ variant = "volt" /\ Global(link) = "open"

\* init_*_arduino: `x = serial.Serial(...)`
InitOpen(t) ==
    /\ st[t].pc = "init_open"
    /\ IF OpenRaises(st[t].link)
       THEN /\ LetGo(st[t].link, "None")
            /\ Move(t, Returned(t, FALSE))
            /\ UNCHANGED gen
       ELSE /\ LetGo(st[t].link, "open")
            /\ gen' = [gen EXCEPT ![st[t].link] = @ + 1]
            /\ Move(t, At(t, "init_reset"))
    /\ UNCHANGED serial_lock
    /\ UNCHANGED <<begun, outbuf, wire, order, okd>>
    /\ SerialFrame

\* init_*_arduino: the buffers of the global are reset; another thread may
\* have closed it or set it to None since it was opened
InitReset(t) ==
    /\ st[t].pc = "init_reset"
    /\ LET h == Global(st[t].link)
       IN  IF h = "open"
           THEN /\ Move(t, At(t, "init_lock"))
                /\ outbuf' = [outbuf EXCEPT ![st[t].link] =
                                 WithoutHandle(@, gen[st[t].link])]
                /\ UNCHANGED <<hand_arduino, face_arduino, dropped>>
           ELSE IF h = "closed" /\ variant = "volt"
           THEN \* `if x.is_open` is false: return False
                /\ Move(t, Returned(t, FALSE))
                /\ UNCHANGED <<hand_arduino, face_arduino, dropped, outbuf>>
           ELSE \* the call raises: the except branch
                /\ LetGo(st[t].link, "None")
                /\ Move(t, Returned(t, FALSE))
                /\ UNCHANGED outbuf
    /\ UNCHANGED serial_lock
    /\ UNCHANGED <<begun, gen, wire, order, okd>>
    /\ SerialFrame

\* init_*_arduino: `with serial_lock:`
InitLock(t) ==
    /\ st[t].pc = "init_lock"
    /\ CanEnter(serial_lock)
    /\ serial_lock' = t
    /\ Move(t, At(t, "init_write"))
    /\ UNCHANGED <<hand_arduino, face_arduino>>
    /\ UNCHANGED <<begun, gen, outbuf, wire, order, okd, dropped>>
    /\ SerialFrame

\* a write on the global of the link succeeds on an open handle of a
\* device that reads
Writable(link) == Global(link) = "open" /\ device[link] = "ok"

\* init_*_arduino: `x.write(test_command.encode('utf-8'))`
InitWrite(t) ==
    /\ st[t].pc = "init_write"
    /\ IF Writable(st[t].link)
       THEN /\ Move(t, At(t, "init_flush"))
            /\ Written(st[t].link, st[t].n, TRUE)
            /\ UNCHANGED <<hand_arduino, face_arduino, serial_lock, dropped>>
       ELSE /\ LetGo(st[t].link, "None")
            /\ serial_lock' = "free"
            /\ Move(t, Returned(t, FALSE))
            /\ UNCHANGED outbuf
    /\ UNCHANGED <<begun, gen, wire, order, okd>>
    /\ SerialFrame

\* init returned True: a send goes on to its own write, a probe is done
Connected(t) == IF st[t].op = "send" THEN At(t, "send_lock") ELSE Returned(t, TRUE)

\* init_*_arduino: `x.flush()`, the end of the block under the lock
InitFlush(t) ==
    /\ st[t].pc = "init_flush"
    /\ serial_lock' = "free"
    /\ IF Writable(st[t].link)
       THEN /\ Move(t, IF variant = "volt" THEN At(t, "init_drain") ELSE Connected(t))
            /\ Flushed(st[t].link)
            /\ UNCHANGED <<hand_arduino, face_arduino, dropped>>
       ELSE /\ LetGo(st[t].link, "None")
            /\ Move(t, Returned(t, FALSE))
            /\ UNCHANGED <<outbuf, wire>>
    /\ UNCHANGED <<begun, gen, order, okd>>
    /\ SerialFrame

\* init_*_arduino of the volt variant: `x.in_waiting`, `x.readline()`
\* after the lock was left
InitDrain(t) ==
    /\ st[t].pc = "init_drain"
    /\ IF Global(st[t].link) = "open"
       THEN /\ Move(t, Connected(t))
            /\ UNCHANGED <<hand_arduino, face_arduino, dropped>>
       ELSE /\ LetGo(st[t].link, "None")
            /\ Move(t, Returned(t, FALSE))
    /\ UNCHANGED serial_lock
    /\ UNCHANGED <<begun, gen, outbuf, wire, order, okd>>
    /\ SerialFrame

\* send_to_*_arduino: `with serial_lock:`
SendLock(t) ==
    /\ st[t].pc = "send_lock"
    /\ CanEnter(serial_lock)
    /\ serial_lock' = t
    /\ order' = [order EXCEPT ![st[t].link] = Append(@, st[t].n)]
    /\ Move(t, At(t, "send_write"))
    /\ UNCHANGED <<hand_arduino, face_arduino>>
    /\ UNCHANGED <<begun, gen, outbuf, wire, okd, dropped>>
    /\ SerialFrame

\* the except branch of a send: the volt variant forgets the handle
SendRaised(t) ==
    /\ serial_lock' = "free"
    /\ IF variant = "volt"
       THEN LetGo(st[t].link, "None")
       ELSE UNCHANGED <<hand_arduino, face_arduino, dropped>>
    /\ Move(t, Returned(t, FALSE))
    /\ UNCHANGED <<outbuf, wire, okd>>

\* send_to_*_arduino: `x.write(cmd_bytes)`
SendWriteStep(t) ==
    /\ st[t].pc = "send_write"
    /\ IF Writable(st[t].link)
       THEN /\ Move(t, At(t, "send_flush"))
            /\ Written(st[t].link, st[t].n, FALSE)
            /\ UNCHANGED <<hand_arduino, face_arduino, serial_lock, dropped, wire, okd>>
       ELSE SendRaised(t)
    /\ UNCHANGED <<begun, gen, order>>
    /\ SerialFrame

\* send_to_*_arduino: `x.flush()`, in the volt variant the read of the
\* acknowledgement, and the end of the block under the lock
SendFlush(t) ==
    /\ st[t].pc = "send_flush"
    /\ IF Writable(st[t].link)
       THEN /\ serial_lock' = "free"
            /\ Flushed(st[t].link)
            /\ okd' = okd \cup {st[t].n}
            /\ Move(t, Returned(t, TRUE))
            /\ UNCHANGED <<hand_arduino, face_arduino, dropped>>
       ELSE SendRaised(t)
    /\ UNCHANGED <<begun, gen, order>>
    /\ SerialFrame

\* the function has returned to its handler
SerialReturn(t) ==
    /\ st[t].pc = "done"
    /\ Move(t, IdleWriter)
    /\ UNCHANGED <<hand_arduino, face_arduino, serial_lock>>
    /\ UNCHANGED <<begun, gen, outbuf, wire, order, okd, dropped>>
    /\ SerialFrame

NextSerial ==
    \/ \E t \in Writers, link \in Links : BeginSend(t, link)
    \/ \E t \in Writers, link \in Links : BeginConnect(t, link)
    \/ \E t \in Writers :
          \/ SendCheck(t)
          \/ InitClose(t)
          \/ InitOpen(t)
          \/ InitReset(t)
          \/ InitLock(t)
          \/ InitWrite(t)
          \/ InitFlush(t)
          \/ InitDrain(t)
          \/ SendLock(t)
          \/ SendWriteStep(t)
          \/ SendFlush(t)
          \/ SerialReturn(t)

SpecSerial == Init /\ [][NextSerial]_vars

----------------------------------------------------------------------------
(* HandAnimator: every method and every timer callback runs to its end in  *)
(* the thread of the Qt event loop.                                        *)

AnimFrame == UNCHANGED <<linkvars, camvars, servars>>

Becomes(a) ==
    /\ is_running' = a.is_running
    /\ timers' = a.timers
    /\ sent' = a.sent
    /\ note' = a.note

\* execute_gesture_sequence(gesture_name, HAND_GESTURES[gesture_name])
execute_gesture_sequence(gesture_name, success) ==
    /\ calls < MaxCalls
    /\ calls' = calls + 1
    /\ IF is_running
       THEN /\ Becomes([Animator EXCEPT !.note = "busy"])
            /\ UNCHANGED runs
       ELSE /\ runs' = Append(runs, gesture_name)
            /\ Becomes(_execute_next_step([Animator EXCEPT !.is_running = TRUE],
                                          Len(runs) + 1, 0,
                                          HAND_GESTURES[gesture_name], success))
    /\ AnimFrame

\* a callback of QTimer.singleShot(400, ...) fires
TimerFires(tm, success) ==
    /\ tm \in timers
    /\ Becomes(_execute_next_step([Animator EXCEPT !.timers = @ \ {tm}],
                                  tm.run, tm.index,
                                  HAND_GESTURES[runs[tm.run]], success))
    /\ UNCHANGED <<runs, calls>>
    /\ AnimFrame

\* HandAnimator.stop()
stop ==
    /\ is_running' = FALSE
    /\ UNCHANGED <<timers, sent, runs, calls, note>>
    /\ AnimFrame

InitAnim == InitCam /\ variant = "pi"

\* gestures are asked for at any time; nothing calls stop()
NextGesture ==
    \/ \E g \in GestureNames, success \in BOOLEAN : execute_gesture_sequence(g, success)
    \/ \E tm \in timers, success \in BOOLEAN : TimerFires(tm, success)

SpecGesture == InitAnim /\ [][NextGesture]_vars

\* how many calls of execute_gesture_sequence are followed when stop() is
\* called as well
MaxStoppedCalls == 2

\* gestures are asked for and stop() is called at any time
NextAnim ==
    \/ /\ calls < MaxStoppedCalls
       /\ \E g \in GestureNames, success \in BOOLEAN : execute_gesture_sequence(g, success)
    \/ \E tm \in timers, success \in BOOLEAN : TimerFires(tm, success)
    \/ stop

SpecAnim == InitAnim /\ [][NextAnim]_vars

----------------------------------------------------------------------------
(* What the claims speak of *)

Done(op) == pc = "done" /\ req.op = op

\* the write events of the request on a link, by the function that wrote
Writes(link, by) ==
    SelectSeq(log, LAMBDA e : e.link = link /\ e.op = "write" /\ e.by = by)

Events(link, op) == SelectSeq(log, LAMBDA e : e.link = link /\ e.op = op)

Touched(link) == \E i \in DOMAIN log : log[i].link = link

\* out is x saturated at the nearest bound of lo..hi
Saturated(x, lo, hi, out) ==
    /\ x < lo => out = lo
    /\ x > hi => out = hi
    /\ (lo <= x /\ x <= hi) => out = x

\* a line without its terminator
Chomp(line) == SubSeq(line, 1, Len(line) - 1)

\* the integers of a comma-separated line, <<>> if it is not one
CsvInts(line) ==
    LET fields == SplitAt(Chomp(line), ",")
    IN  IF EndsWithNewline(line) /\ \A i \in DOMAIN fields : AllDigits(fields[i])
        THEN [i \in DOMAIN fields |-> DigitsToNat(fields[i])]
        ELSE <<>>

\* a seven-field hand line with every angle in its range
IsHandLine(line) ==
    LET ns == CsvInts(line)
    IN  /\ Len(ns) = 7
        /\ ns[1] \in 0..90
        /\ \A i \in 2..7 : ns[i] \in 0..180

\* every hand field present in the body is an integer
IntegerFields(body) ==
    \A i \in DOMAIN body.items :
        body.items[i].k \in HandKeySet => body.items[i].v.t = "int"

\* the integer a hand request gives for field i, its default when absent
HandInput(i) ==
    IF HasKey(req.body, HandKeys[i]) THEN Lookup(req.body, HandKeys[i]).n
    ELSE IF variant = "volt" /\ i \in {5, 6} THEN 180 ELSE 0

HandSaturates ==
    /\ resp.code # 400
    /\ resp.code = 200 =>
          /\ Len(resp.angles) = 7
          /\ Saturated(HandInput(1), 0, 90, resp.angles[1])
          /\ \A i \in 2..7 : Saturated(HandInput(i), 0, 180, resp.angles[i])
    /\ \A k \in DOMAIN Writes("hand", "send") :
          /\ resp.code = 200
          /\ CsvInts(Writes("hand", "send")[k].line) = resp.angles

C2_EveryHandLineInRange ==
    \A i \in DOMAIN log :
        (log[i].link = "hand" /\ log[i].op = "write") => IsHandLine(log[i].line)

\* the command string a debug request carries
DebugCommand == Get(req.body, "command", StrV(<<>>)).s

\* C2 as amended: every line written to the hand port by POST /hand, by
\* GET /status, by a reconnect or at startup is such a line; POST /debug/send
\* writes its command string to the port unchecked.
C2_HandLinesInRangeButDebug ==
    \A i \in DOMAIN log :
        (log[i].link = "hand" /\ log[i].op = "write") =>
            IF req.op = "debug_send" /\ log[i].by = "send"
            THEN Chomp(log[i].line) \in {DebugCommand, Chomp(DebugCommand)}
            ELSE IsHandLine(log[i].line)

C2_Witness ==
    /\ Done("hand")
    /\ \E i \in 1..7 : HandInput(i) > 180
    /\ \E k \in DOMAIN Writes("hand", "send") :
          Writes("hand", "send")[k].ok /\ IsHandLine(Writes("hand", "send")[k].line)

\* the body has exactly the members of the example, in any order
IsExampleBody(body) ==
    /\ Len(body.items) = Len(ExampleItems)
    /\ \A i \in DOMAIN ExampleItems : \E j \in DOMAIN body.items : body.items[j] = ExampleItems[i]

ExampleLine ==
    <<"3", "0", ",", "0", ",", "0", ",", "0", ",", "1", "8", "0", ",",
      "1", "8", "0", ",", "0", "\n">>

\* C3: the line POST /hand sends is the seven clamped integers, comma
\* joined without spaces, in the order wrist,f1..f6 whatever the order of
\* the keys in the body; the example body gives "30,0,0,0,180,180,0".
C3_HandLineOrder ==
    Done("hand") =>
        \A k \in DOMAIN Writes("hand", "send") :
            LET line == Writes("hand", "send")[k].line
                fields == SplitAt(Chomp(line), ",")
            IN  /\ EndsWithNewline(line)
                /\ Len(fields) = 7
                /\ Len(resp.angles) = 7
                /\ \A i \in 1..7 :
                      /\ fields[i] = IntToStr(resp.angles[i])
                      /\ IntegerFields(req.body) =>
                            Saturated(HandInput(i), 0, IF i = 1 THEN 90 ELSE 180,
                                      resp.angles[i])
                /\ IsExampleBody(req.body) => line = ExampleLine

C3_Witness ==
    /\ Done("hand")
    /\ req.body = Obj(Reverse(ExampleItems))
    /\ \E k \in DOMAIN Writes("hand", "send") :
          Writes("hand", "send")[k].ok /\ Writes("hand", "send")[k].line = ExampleLine

\* the tokens of a face line
Tokens(line) == SplitAt(Chomp(line), " ")

StartsWith(tok, c) == tok # <<>> /\ tok[1] = c

\* the number a token carries after its letter, -1 if it carries none
TokenValue(tok) == IF AllDigits(Tail(tok)) THEN DigitsToNat(Tail(tok)) ELSE 0 - 1

Line_E85 == <<"E", "8", "5", "\n">>
Line_M60 == <<"M", "6", "0", "\n">>
Line_E85_M60 == <<"E", "8", "5", " ", "M", "6", "0", "\n">>

Eyes85 == Item("eyes", IntV(85))
Mouth60 == Item("mouth", IntV(60))

\* C4: the line POST /face sends holds one token for each field present in
\* the request, E<eyes> before M<mouth>, one space between them and none
\* around them: "E85", "M60", "E85 M60".
C4_FaceTokens ==
    Done("face") =>
        \A k \in DOMAIN Writes("face", "send") :
            LET line == Writes("face", "send")[k].line
                toks == Tokens(line)
                hasE == HasKey(req.body, "eyes")
                hasM == HasKey(req.body, "mouth")
            IN  /\ EndsWithNewline(line)
                /\ Len(toks) = (IF hasE THEN 1 ELSE 0) + (IF hasM THEN 1 ELSE 0)
                /\ hasE => StartsWith(toks[1], "E") /\ TokenValue(toks[1]) >= 0
                /\ hasM => StartsWith(toks[Len(toks)], "M") /\ TokenValue(toks[Len(toks)]) >= 0
                /\ req.body = Obj(<<Eyes85>>) => line = Line_E85
                /\ req.body = Obj(<<Mouth60>>) => line = Line_M60
                /\ req.body \in {Obj(<<Eyes85, Mouth60>>), Obj(<<Mouth60, Eyes85>>)} =>
                      line = Line_E85_M60

C4_Witness ==
    /\ Done("face")
    /\ req.body = Obj(<<Eyes85>>)
    /\ \E k \in DOMAIN Writes("face", "send") :
          Writes("face", "send")[k].ok /\ Writes("face", "send")[k].line = Line_E85

\* the integer a face request gives for a field
FaceInput(key) == Lookup(req.body, key)

\* C5: every E token POST /face and POST /face_expression send carries a
\* value in 70..110 and every M token a value in 0..80; /face saturates its
\* integer inputs, each expression of the table lies inside the ranges, and
\* happy is eyes 85, mouth 60.
C5_FaceRanges ==
    (Done("face") \/ Done("face_expression")) =>
        \A k \in DOMAIN Writes("face", "send") :
            LET line == Writes("face", "send")[k].line
                toks == Tokens(line)
            IN  /\ \A i \in DOMAIN toks :
                      \/ StartsWith(toks[i], "E") /\ TokenValue(toks[i]) \in 70..110
                      \/ StartsWith(toks[i], "M") /\ TokenValue(toks[i]) \in 0..80
                /\ (req.op = "face" /\ HasKey(req.body, "eyes") /\ FaceInput("eyes").t = "int") =>
                      Saturated(FaceInput("eyes").n, 70, 110, TokenValue(toks[1]))
                /\ (req.op = "face" /\ HasKey(req.body, "mouth") /\ FaceInput("mouth").t = "int") =>
                      Saturated(FaceInput("mouth").n, 0, 80, TokenValue(toks[Len(toks)]))
                /\ (req.op = "face_expression" /\ resp.expression = Name_happy) =>
                      line = Line_E85_M60

C5_Witness ==
    /\ Done("face")
    /\ req.body = Obj(<<Item("eyes", IntV(999)), Item("mouth", IntV(0 - 5))>>)
    /\ \E k \in DOMAIN Writes("face", "send") :
          /\ Writes("face", "send")[k].ok
          /\ Writes("face", "send")[k].line = <<"E", "1", "1", "0", " ", "M", "0", "\n">>

\* the pixel a look request gives, its default when absent
LookX(r) == IF HasKey(r.body, "x") THEN Lookup(r.body, "x").n ELSE 320

LookY(r) == IF HasKey(r.body, "y") THEN Lookup(r.body, "y").n ELSE 240

IsLook(r, a) == r.op = "face_look" /\ a.code = 200

LookInRange ==
    (pc = "done" /\ IsLook(req, resp)) =>
        /\ resp.angles[1] \in 70..110
        /\ resp.angles[2] \in 60..100
        /\ LookX(req) = 0 => resp.angles[1] = 110
        /\ LookX(req) = 640 => resp.angles[1] = 70
        /\ LookY(req) = 0 => resp.angles[2] = 60
        /\ LookY(req) = 480 => resp.angles[2] = 100

\* from one look to the next of the same client
LookMonotone ==
    (IsLook(req, resp) /\ IsLook(req', resp')) =>
        /\ LookX(req) <= LookX(req') => resp'.angles[1] <= resp.angles[1]
        /\ LookY(req) <= LookY(req') => resp'.angles[2] >= resp.angles[2]

UnknownExpression(body) ==
    /\ ~Falsy(body)
    /\ Get(body, "expression", StrV(<<>>)).t = "str"
    /\ Lower(Get(body, "expression", StrV(<<>>)).s) \notin DOMAIN expressions

\* C7: in both variants and in every state of the face link, POST
\* /face_expression with a name outside the table is answered 400 and makes
\* no operation on the face link: no connect, no open, no write.
C7_UnknownExpressionTouchesNothing ==
    (Done("face_expression") /\ UnknownExpression(req.body)) =>
        /\ resp.code = 400
        /\ ~Touched("face")

\* the body fails validation: absent, empty, or a face body without a field
InvalidBody ==
    \/ req.op \in {"hand", "face", "face_expression", "debug_send"} /\ Falsy(req.body)
    \/ req.op = "face" /\ ~HasKey(req.body, "eyes") /\ ~HasKey(req.body, "mouth")

\* C8: in both variants, a request with an absent or empty body, and a
\* /face request with neither eyes nor mouth, is answered 400 with both
\* links untouched: nothing opened, nothing written, the handles unchanged.
C8_InvalidBodyTouchesNothing ==
    (pc = "done" /\ InvalidBody) =>
        /\ resp.code = 400
        /\ log = <<>>
        /\ hand_arduino = pre.hand
        /\ face_arduino = pre.face

TargetLink == IF req.op = "hand" THEN "hand" ELSE "face"

TargetHandle == IF req.op = "hand" THEN hand_arduino ELSE face_arduino

\* the request passes validation
ValidRequest ==
    /\ req.op \in {"hand", "face", "face_expression"}
    /\ ~Falsy(req.body)
    /\ req.op = "hand" => HandAngles(variant, req.body).ok
    /\ req.op = "face" => FaceCommand(req.body).ok /\ FaceCommand(req.body).command # <<>>
    /\ req.op = "face_expression" =>
          /\ Get(req.body, "expression", StrV(<<>>)).t = "str"
          /\ Lower(Get(req.body, "expression", StrV(<<>>)).s) \in DOMAIN expressions

\* C9: in both variants, a valid /hand, /face or /face_expression request
\* that finds its link not open and whose reconnect fails is answered 503,
\* writes no command and leaves the link disconnected.
C9_UnavailableIs503 ==
    (pc = "done" /\ ValidRequest /\ NotOpen(pre[TargetLink]) /\ device[TargetLink] # "ok") =>
        /\ resp.code = 503
        /\ Len(Writes(TargetLink, "send")) = 0
        /\ TargetHandle = "None"

\* what /status does with one link and reports for it
ProbedOnce(link, reported) ==
    NotOpen(pre[link]) =>
        /\ Len(Events(link, "connect")) = 1
        /\ Len(Events(link, "connect_ret")) = 1
        /\ reported = Events(link, "connect_ret")[1].ok

\* C10: GET /status calls connect exactly once for each link that is
\* disconnected when examined, reports the boolean that connect returned,
\* and answers 200 whether the connect succeeds or fails.
C10_StatusProbesOnce ==
    Done("status") =>
        /\ resp.code = 200
        /\ ProbedOnce("hand", resp.hand_connected)
        /\ ProbedOnce("face", resp.face_connected)

C10_Witness ==
    /\ Done("status")
    /\ NotOpen(pre.hand)
    /\ NotOpen(pre.face)
    /\ resp.hand_connected
    /\ ~resp.face_connected
    /\ Len(Events("face", "connect")) = 1

----------------------------------------------------------------------------
(* C11: GET /status on a link whose handle is open reports the link        *)
(* connected, makes no operation on its port (no connect, close, open,     *)
(* reset, write or drain) and leaves the handle as it was; and the step    *)
(* that serves GET /status changes nothing of the camera: the handle, the  *)
(* running flag, the frame slot, the lock, the request and capture threads.*)

Reported(link) ==
    IF link = "hand" THEN resp.hand_connected ELSE resp.face_connected

StatusLeavesOpenLink ==
    Done("status") =>
        \A link \in Links :
            pre[link] = "open" =>
                /\ Reported(link)
                /\ ~Touched(link)
                /\ Handle(World, link) = "open"

StatusLeavesCamera ==
    (pc = "idle" /\ pc' = "done" /\ req'.op = "status") =>
        /\ UNCHANGED camvars
        /\ resp'.camera_running = camera_running

C11_StatusTouchesNothing == [](StatusLeavesOpenLink) /\ [][StatusLeavesCamera]_vars

\* the status of an open hand link is asked while the camera is capturing
C11_Witness ==
    /\ Done("status")
    /\ pre.hand = "open"
    /\ resp.hand_connected
    /\ resp.camera_running
    /\ latest_frame # 0
    /\ ~camera.none

----------------------------------------------------------------------------
(* C12: GET /camera/snapshot answers 503 exactly when the running flag it  *)
(* reads is false or the slot it reads is empty, and otherwise answers 200 *)
(* with the image of the slot; as long as no POST /camera/start has        *)
(* launched a capture thread, every snapshot is answered 503.              *)

Snapshots == {t \in Requests : th[t].pc = "done" /\ th[t].op = "snapshot"}

C12_SnapshotNeedsRunningAndFrame ==
    \A t \in Snapshots :
        /\ th[t].code = 503 <=> (~th[t].was_running \/ th[t].frame = 0)
        /\ th[t].code # 503 => th[t].code = 200
        /\ ~started => th[t].code = 503

\* an image is served, and a later snapshot finds the camera stopped
C12_Witness ==
    /\ started
    /\ \E t \in Snapshots :
          th[t].code = 503 /\ ~th[t].was_running /\ th[t].frame # 0

----------------------------------------------------------------------------
(* C13: when POST /camera/stop has been answered the frame slot is empty,  *)
(* and an image served by a snapshot was read from the camera handle of    *)
(* the current start, never from a handle that an earlier stop released.   *)

Stops == {t \in Requests : th[t].pc = "done" /\ th[t].op = "stop"}

C13_StopEmptiesSlot ==
    /\ \A t \in Stops : latest_frame = 0
    /\ \A t \in Snapshots : th[t].code = 200 => th[t].frame = camera.id

----------------------------------------------------------------------------
(* C14: a thread that stands before the write section of one link is never *)
(* kept out by a thread that is inside the write section of the other      *)
(* link: whenever the guard it waits for is held, the holder writes to the *)
(* same link.                                                              *)

Waiting(t) == st[t].pc \in AtLock

Inside(t) == st[t].pc \in InSection

C14_LinksDoNotBlockEachOther ==
    \A t \in Writers, u \in Writers :
        (Waiting(t) /\ Inside(u) /\ ~CanEnter(serial_lock)) => st[u].link = st[t].link

----------------------------------------------------------------------------
(* C15: two threads are never inside a write section of the same link at   *)
(* the same time, so a line that one thread has written and not yet        *)
(* flushed is never followed on the wire by bytes of another thread.       *)

Alone ==
    \A t \in Writers, u \in Writers :
        (t # u /\ Inside(t) /\ Inside(u)) => st[t].link # st[u].link

\* the threads whose line is written to the port of the link, not flushed
Unflushed(link) ==
    {t \in Writers : st[t].pc \in {"init_flush", "send_flush"} /\ st[t].link = link}

\* the step in which thread t hands its line to the port
WritesLine(t) ==
    /\ st[t].pc \in {"init_write", "send_write"}
    /\ st'[t].pc \in {"init_flush", "send_flush"}

WholeLines == \A t \in Writers : WritesLine(t) => Unflushed(st[t].link) = {}

C15_OneWriterPerLink == [](Alone) /\ [][WholeLines]_vars

\* a send is inside its write section while another thread waits to write
\* to the same link
C15_Witness ==
    \E t \in Writers, u \in Writers :
        /\ st[t].pc = "send_flush"
        /\ Waiting(u)
        /\ st[u].link = st[t].link

----------------------------------------------------------------------------
(* C16: when a valid /hand or /face command is sent to a link that is open *)
(* and healthy, and the same client then sends the same command again,     *)
(* both requests are answered with success, both put the same single line  *)
(* on the wire, the two responses are equal, and the server is left as the *)
(* first request left it: the same handles, the same camera state.         *)

\* the request that was answered repeats the previous one
Repeated ==
    /\ pc = "done"
    /\ req.op \in {"hand", "face"}
    /\ ValidRequest
    /\ last.req = req
    /\ last.pre[TargetLink] = "open"
    /\ device[TargetLink] = "ok"

C16_RepeatedCommandSameOutcome ==
    Repeated =>
        /\ last.resp.status = "success" /\ resp.status = "success"
        /\ resp = last.resp
        /\ Len(Writes(TargetLink, "send")) = 1
        /\ log = last.log
        /\ hand_arduino = last.hand /\ face_arduino = last.face
        /\ TargetHandle = "open"
        /\ <<camera, camera_running, latest_frame>> = last.cam

C16_Witness ==
    /\ Repeated
    /\ req.op = "hand"
    /\ IsExampleBody(req.body)
    /\ resp.status = "success"

----------------------------------------------------------------------------
(* C17: in both variants an OPTIONS request is answered with status 200,   *)
(* an empty body and the three CORS headers, and the response to every     *)
(* other request, success or error, carries the three headers.             *)

C17_OptionsAndCorsEverywhere ==
    (pc = "done" /\ req.op # "main") =>
        /\ CORS \subseteq resp.headers
        /\ req.op = "options" => resp.code = 200 /\ resp.body = ""

----------------------------------------------------------------------------
(* C18: POST /camera/start is answered 500 exactly when the camera was not *)
(* running and no read of init_camera delivered a frame; then every        *)
(* candidate index was tried, the running flag is false and no capture     *)
(* thread was launched.  Otherwise it is answered 200 with the flag true;  *)
(* when the camera was running already, no handle was created and no       *)
(* thread launched.                                                        *)

Starts == {t \in Requests : th[t].pc = "done" /\ th[t].op = "start"}

C18_StartFailsOnlyWithoutCamera ==
    \A t \in Starts :
        /\ th[t].code = 500 <=> (~th[t].was_running /\ ~th[t].got)
        /\ th[t].code = 500 =>
              /\ th[t].k = Len(Candidates(variant))
              /\ ~camera_running
              /\ ~th[t].launched
        /\ th[t].code # 500 => th[t].code = 200 /\ camera_running
        /\ th[t].got => th[t].launched /\ ~camera.none /\ camera.opened
        /\ th[t].was_running => th[t].k = 0 /\ ~th[t].launched

\* the first index opens without delivering a frame, a later one works
C18_Witness ==
    \E t \in Starts :
        /\ th[t].code = 200
        /\ th[t].k > 1
        /\ th[t].launched
        /\ camera_running

----------------------------------------------------------------------------
(* C19: POST /camera/stop is always answered with success (200), whether   *)
(* the camera is running, was never started or is stopped already, and     *)
(* when two stop requests overlap; when it is answered the running flag is *)
(* false and the camera handle is absent.                                  *)

C19_StopAlwaysSucceeds ==
    \A t \in Stops :
        /\ th[t].code = 200
        /\ ~camera_running
        /\ camera.none

----------------------------------------------------------------------------
(* C20: in both variants, a request whose command goes to a link that is   *)
(* not open makes exactly one connect attempt on that link, before         *)
(* anything is written to it; when the connect fails the request is        *)
(* answered with the not-connected failure and no command is written; when *)
(* it succeeds the command is written once, after the connect, and the     *)
(* handle is open.                                                         *)

\* the link a /debug/send names
DebugLink ==
    IF Get(req.body, "target", StrV(Text_hand)) = StrV(Text_hand)
    THEN "hand" ELSE "face"

SendLink == IF req.op = "debug_send" THEN DebugLink ELSE TargetLink

\* the request carries a command for send_to_hand_arduino or
\* send_to_face_arduino
CarriesCommand ==
    \/ ValidRequest
    \/ /\ req.op = "debug_send"
       /\ ~Falsy(req.body)
       /\ Get(req.body, "command", StrV(<<>>)).t = "str"
    \/ IsLook(req, resp)

\* the positions in the log of the events of one kind on a link
Positions(link, op) ==
    {i \in DOMAIN log : log[i].link = link /\ log[i].op = op}

C20_SendConnectsOnce ==
    (pc = "done" /\ CarriesCommand /\ NotOpen(pre[SendLink])) =>
        /\ Len(Events(SendLink, "connect")) = 1
        /\ Len(Events(SendLink, "connect_ret")) = 1
        /\ log[1].link = SendLink /\ log[1].op = "connect"
        /\ IF Events(SendLink, "connect_ret")[1].ok
           THEN /\ Len(Writes(SendLink, "send")) = 1
                /\ \A i \in Positions(SendLink, "connect_ret"), j \in DOMAIN log :
                      (log[j].op = "write" /\ log[j].by = "send") => i < j
                /\ Writes(SendLink, "send")[1].ok => Handle(World, SendLink) = "open"
           ELSE /\ Len(Writes(SendLink, "send")) = 0
                /\ resp.status = "error"
                /\ resp.message = "not_connected"

----------------------------------------------------------------------------
(* C21: in both variants, when the write of a send raises, the request is  *)
(* still answered by its handler (no exception escapes: the answer is not  *)
(* Flask's 500), the answer is a failure with the send's message, and the  *)
(* link is disconnected afterwards (its handle is not an open one), so     *)
(* that the next send on the link connects before it writes.               *)

\* the send of the request wrote to its link and the write raised
SendRaisedOnWrite ==
    /\ pc = "done"
    /\ CarriesCommand
    /\ \E i \in DOMAIN log :
          /\ log[i].link = SendLink
          /\ log[i].op = "write"
          /\ log[i].by = "send"
          /\ ~log[i].ok

C21_WriteErrorDisconnects ==
    SendRaisedOnWrite =>
        /\ resp # InternalServerError /\ resp.code # 500
        /\ resp.status = "error"
        /\ resp.message = "send_error"
        /\ NotOpen(Handle(World, SendLink))

----------------------------------------------------------------------------
(* C22: the command lines on the wire of a link are the sends that entered *)
(* the lock of the link, in the order in which they entered it, each at    *)
(* most once, and the line of every send that returned success is among    *)
(* them.                                                                   *)

\* the sends whose line has left the port of the link, in wire order
Commands(link) ==
    LET lines == SelectSeq(wire[link], LAMBDA l : ~l.test)
    IN  [i \in DOMAIN lines |-> lines[i].n]

OnWire(link) == {Commands(link)[i] : i \in DOMAIN Commands(link)}

InLockOrder(link) ==
    Commands(link) = SelectSeq(order[link], LAMBDA n : n \in OnWire(link))

C22_WireFollowsLockOrder ==
    /\ \A link \in Links : InLockOrder(link)
    /\ okd \subseteq UNION {OnWire(link) : link \in Links}

----------------------------------------------------------------------------
(* C23: when a send on a link has returned success and no send on that     *)
(* link was begun after it, the last line on the wire of the link is the   *)
(* command of that send; and no test line of a connect that was begun      *)
(* before a successful send follows the command of that send on the wire.  *)

\* send m on the link returned success and no later send on it has begun
LastSend(link, m) ==
    /\ m \in okd
    /\ begun[m] = Called("send", link)
    /\ \A k \in DOMAIN begun : k > m => begun[k] # Called("send", link)

LastWriteWins(link) ==
    \A m \in DOMAIN begun :
        LastSend(link, m) =>
            /\ wire[link] # <<>>
            /\ wire[link][Len(wire[link])].n = m
            /\ ~wire[link][Len(wire[link])].test

NoStaleTestLine(link) ==
    \A i \in DOMAIN wire[link], j \in DOMAIN wire[link] :
        (/\ i < j
         /\ ~wire[link][i].test /\ wire[link][i].n \in okd
         /\ wire[link][j].test)
        => wire[link][j].n > wire[link][i].n

C23_LastWriteWins ==
    \A link \in Links : LastWriteWins(link) /\ NoStaleTestLine(link)

----------------------------------------------------------------------------
(* C24: a link never lets go of a handle that is still open (a handle is   *)
(* closed before the global is set to None or to a new handle, so that a   *)
(* port has at most one open handle), and the global of a link changes     *)
(* only in a step of a thread that is inside `with serial_lock`.           *)

ClosedBeforeLetGo == \A link \in Links : dropped[link] = 0

\* the thread whose step changes the handle of the link holds the lock
ChangedUnderLock ==
    \A link \in Links :
        Global(link)' # Global(link) =>
            \E t \in Writers : st'[t] # st[t] /\ serial_lock = t

C24_OneHandlePerPort == [](ClosedBeforeLetGo) /\ [][ChangedUnderLock]_vars

----------------------------------------------------------------------------
(* C25: a capture thread ends only in its test of the flag, when it finds  *)
(* camera_running False: a failed read never ends it.  The slot holds the  *)
(* frame of the latest successful read of a capture thread, or nothing     *)
(* when no read has succeeded.                                             *)

LoopEndsOnFlag ==
    \A c \in Captures :
        (cap[c] # "none" /\ cap'[c] = "none") => (cap[c] = "while" /\ ~camera_running)

SlotIsLatestRead == latest_frame = last_read

C25_LoopSurvivesFailedReads == [](SlotIsLatestRead) /\ [][LoopEndsOnFlag]_vars

\* a capture thread has passed the test of the flag again after a read
\* that failed, and the slot still holds the frame read before it
C25_Witness ==
    /\ read_failed
    /\ latest_frame # 0
    /\ \E c \in Captures : cap[c] = "section"

----------------------------------------------------------------------------
(* C26: when the running flag stays False from some moment on (a stop has  *)
(* cleared it and no start sets it again), then from some moment on no     *)
(* stream generator and no capture thread is running; and a generator      *)
(* whose first test of the flag found it False has yielded no frame.       *)

NoLoops == \A c \in Captures : cap[c] = "none"

OffYieldsNothing == \A s \in Streams : stream[s].off => ~stream[s].yielded

C26_StopEndsStreams ==
    /\ [](OffYieldsNothing)
    /\ \A s \in Streams : (stream[s].pc # "none" /\ [](~camera_running))
                               ~> (stream[s].pc = "none")
    /\ [](~camera_running) ~> NoLoops

\* a generator that has yielded a frame is running, so is a capture
\* thread, and a stop has cleared the flag
C26_Witness ==
    /\ ~camera_running
    /\ started
    /\ \E s \in Streams : stream[s].pc # "none" /\ stream[s].yielded
    /\ \E c \in Captures : cap[c] # "none"

----------------------------------------------------------------------------
(* C28: at most one capture thread is alive at any moment, whatever the    *)
(* interleaving of the start and stop requests.                            *)

C28_OneCaptureLoop == Cardinality(Alive) <= 1

----------------------------------------------------------------------------
(* C29: whenever no start and no stop request is in progress, the running  *)
(* flag is True only if the camera handle is held and open and a capture   *)
(* thread is alive to read from it.                                        *)

NoStartOrStop ==
    \A t \in Requests : th[t].op \in {"start", "stop"} => th[t].pc \in {"idle", "done"}

C29_RunningMeansCapturing ==
    (NoStartOrStop /\ camera_running) =>
        /\ ~camera.none
        /\ camera.opened
        /\ Alive # {}

----------------------------------------------------------------------------
(* C27: the commands sent for a gesture are its steps in list order, each  *)
(* once, every one but the last answered with success; every step sent is  *)
(* seven integers and so is every step before it; when the gesture is over *)
(* (no callback is pending) is_running is False and the gesture was sent   *)
(* to its end, or its last command failed, or its next step is malformed.  *)

\* the commands sent for a run, in the order they were sent
SentOf(run) == SelectSeq(sent, LAMBDA c : c.run = run)

StepsInOrder(run) ==
    LET cs == SentOf(run)
        steps == HAND_GESTURES[runs[run]]
    IN  /\ Len(cs) <= Len(steps)
        /\ \A k \in DOMAIN cs :
              /\ cs[k].index = k - 1
              /\ Len(cs[k].angles) = 7
              /\ StepText(cs[k].angles) = steps[k]
              /\ k < Len(cs) => cs[k].success

Pending(run) == \E tm \in timers : tm.run = run

Over(run) ==
    LET cs == SentOf(run)
        steps == HAND_GESTURES[runs[run]]
    IN  \/ Len(cs) = Len(steps)
        \/ cs # <<>> /\ ~cs[Len(cs)].success
        \/ Len(cs) < Len(steps) /\ ~ParseAngles(steps[Len(cs) + 1]).ok

C27_GestureStepsInOrder ==
    /\ \A run \in DOMAIN runs : StepsInOrder(run)
    /\ \A run \in DOMAIN runs : ~Pending(run) => Over(run)
    /\ timers = {} => ~is_running

\* the six steps of "hello" were sent and the gesture is over
C27_Witness ==
    \E run \in DOMAIN runs :
        /\ runs[run] = "hello"
        /\ Len(SentOf(run)) = 6
        /\ ~Pending(run) /\ ~is_running

\* a gesture was given up at a step that is not seven integers
GivenUpAtMalformedStep ==
    \E run \in DOMAIN runs :
        /\ runs[run] = "short"
        /\ Len(SentOf(run)) = 1
        /\ note = "parse_error"

----------------------------------------------------------------------------
(* C30: a call of execute_gesture_sequence while is_running is True sends  *)
(* nothing and starts nothing; and the commands of a gesture are never     *)
(* separated by a command of another gesture, whatever the order of the    *)
(* calls, of stop() and of the callbacks.                                  *)

BusySendsNothing ==
    (calls' # calls /\ is_running) => (sent' = sent /\ runs' = runs /\ timers' = timers)

NoInterleaving ==
    \A i \in DOMAIN sent, j \in DOMAIN sent, k \in DOMAIN sent :
        (i < j /\ j < k /\ sent[i].run = sent[k].run) => sent[j].run = sent[i].run

C30_OneGestureAtATime == [](NoInterleaving) /\ [][BusySendsNothing]_vars
====
